---- MODULE Spec2Model ----
(***************************************************************************)
(* Model of the DWB local planner (dwb_core::DWBLocalPlanner): the stored  *)
(* global plan, its windowing and pruning, and the per-cycle scoring loop  *)
(* over the twists of the trajectory generator.                            *)
(*                                                                         *)
(* Numbers are integers: a pose is a grid point <<x, y>>, raw critic       *)
(* scores and critic scales are naturals (the code adds "positives",       *)
(* scoreTrajectory), distances are compared squared as the code does.      *)
(***************************************************************************)
EXTENDS Integers, Sequences, FiniteSets, TLC

\* ------------------------------------------------------------------ bounds
MaxCoord == 1          \* plan poses and robot poses lie on (0..MaxCoord)^2
MaxPlanLen == 2        \* longest path handed to setPlan
MaxThreshold == 2      \* largest costmap half extent / prune distance
MaxTwists == 2         \* most twists the generator yields in one iteration
MaxRaw == 2            \* largest raw score a critic returns
MaxScale == 1          \* largest critic scale
MaxWindowLen == 3      \* longest stored plan when the windowing is run alone
MaxSpeed == 2          \* largest magnitude of a velocity component or of a speed threshold
MaxSamples == 3        \* most samples per axis of the velocity sample space
HalfTurn == 4          \* the angle pi in angle units: headings are -HalfTurn..HalfTurn
MaxTolerance == 1      \* largest tolerance of a goal checker
MaxSimTime == 4        \* longest simulated time of a trajectory, in time units
MaxRecorded == 3       \* most twists of an iteration whose evaluation is recorded
MaxMessages == 2       \* most odometry messages delivered to the subscriber
MaxCell == 2           \* largest coordinate of the bounds handed to the inflation layer
MaxUpdates == 3        \* most updateBounds calls made on the inflation layer
MaxTravel == 2         \* largest short target of the back-up recovery, in cycle steps
MaxCycles == 3         \* most cycles the back-up recovery simulates ahead

\* ------------------------------------------------------------------ values
\* critics_, in the order loadCritics pushes them (a two-critic configuration)
critics_ == <<"ObstacleFootprint", "PathDist">>
CriticIds == 1..Len(critics_)

Coords == 0..MaxCoord
Poses == Coords \X Coords

RECURSIVE SeqsUpTo(_, _)
SeqsUpTo(S, n) ==
  IF n = 0 THEN {<<>>}
  ELSE LET R == SeqsUpTo(S, n - 1)
       IN R \cup {Append(s, x) : s \in {r \in R : Len(r) = n - 1}, x \in S}

Paths == SeqsUpTo(Poses, MaxPlanLen)

\* What one critic does with one trajectory: throws IllegalTrajectoryException
\* or returns a raw score.
Outcomes == [illegal : {FALSE}, raw : 0..MaxRaw] \cup {[illegal |-> TRUE, raw |-> 0]}
CriticOutcomes == [CriticIds -> Outcomes]

\* The default-constructed Twist2D (empty_cmd); yielded twists are numbered
\* from 1 in the order nextTwist returns them.
ZeroTwist == 0

NoException == "none"

VARIABLES
  scale,             \* critic->getScale(), per critic
  prune_plan_,       \* parameter prune_plan
  prune_distance_,   \* parameter prune_distance
  costmap_half,      \* max(size x, size y) * resolution / 2 of the local costmap
  global_plan_,      \* the stored global plan (poses)
  set_plan,          \* history: the path given to the last setPlan
  pc,                \* where the planner is inside the current call
  op,                \* the API call in progress or just finished
  pose,              \* the pose argument of the current call
  transformed_plan,  \* local path handed to the critics
  goal_pose,         \* local goal handed to the critics
  core,              \* locals of coreScoringAlgorithm
  calls,             \* history: calls made on the critics during this call
  cmd_vel,           \* twist returned by computeVelocityCommands
  exception,         \* exception leaving the current call
  goal_reached,      \* value returned by isGoalReached
  transformable,     \* history: tf can transform the pose of the current call
  given,             \* history: per twist, what each critic does with its trajectory
  scored,            \* history: per twist, what scoreTrajectory did
  results,           \* the LocalPlanEvaluation being filled, or the null pointer
  kinematics_,       \* the KinematicParameters object
  speed,             \* the arguments of the last isValidSpeed
  valid,             \* what the last isValidSpeed returned
  limits,            \* velocity and acceleration limits, sample counts, policy
  velocity_iterator_,  \* the sample space being iterated
  last_twist,        \* the twist nextTwist returned last
  n_twists,          \* history: how many twists this iteration has yielded
  extent,            \* history: the current velocity of this iteration, the least and
                     \* the greatest component its twists have had on each axis
  tolerances,        \* the parameters of the two goal checkers
  query,             \* the arguments of isGoalReached: pose, goal, velocity
  answer,            \* what the two goal checkers returned for query
  generator,         \* the parameters of the trajectory generator
  request,           \* the arguments of generateTrajectory
  time_steps,        \* what getTimeSteps returned for the request's command
  traj,              \* what generateTrajectory returned for the request
  parameters,        \* the parameters set on the node the generator initializes from
  gen_class,         \* the class of the trajectory generator being initialized
  init_outcome,      \* how the generator's initialize ended
  odom,              \* the OdomSubscriber object
  threads,           \* where the subscription and the control thread stand
  odom_log,          \* history: the messages received, the value a getter returned
  inflation,         \* the InflationLayer object
  bounds,            \* the bounds the last updateBounds left in its arguments
  infl_log,          \* history: the calls made on the layer and what they were passed
  backup,            \* the BackUp recovery: its members and whether its loop runs
  world,             \* the robot's pose in odom, whether tf has it, the obstacles
  cycle              \* what the onCycleUpdate that just ran returned and published

planner == <<scale, prune_plan_, prune_distance_, costmap_half, global_plan_, set_plan,
             pc, op, pose, transformed_plan, goal_pose, core, calls, cmd_vel,
             exception, goal_reached, transformable, given, scored, results>>

kin_vars == <<kinematics_, speed, valid>>
iter_vars == <<limits, velocity_iterator_, last_twist, n_twists, extent>>

goal_vars == <<tolerances, query, answer>>

\* the state of the plugins, which the planner's own steps leave alone
traj_vars == <<generator, request, time_steps, traj>>

setup_vars == <<parameters, gen_class, init_outcome>>

\* the state of the components modelled after the planner's plugins
\* the components outside the local planner
odom_vars == <<odom, threads, odom_log>>

infl_vars == <<inflation, bounds, infl_log>>

backup_vars == <<backup, world, cycle>>

component_vars == <<odom_vars, infl_vars, backup_vars>>

more_vars == <<setup_vars, component_vars>>

\* the state of the plugins, which the planner's own steps leave alone
plugins == <<kin_vars, iter_vars, goal_vars, traj_vars, more_vars>>

vars == <<planner, plugins>>

config == <<scale, prune_plan_, prune_distance_, costmap_half>>

\* ------------------------------------------------------------------ frames
\* nav_2d_utils::transformPose between the plan's frame and the costmap's
\* global frame: a fixed rigid offset between the two frames.
FrameOffset == <<1, 0>>
ToLocal(p) == <<p[1] + FrameOffset[1], p[2] + FrameOffset[2]>>
ToPlanFrame(p) == <<p[1] - FrameOffset[1], p[2] - FrameOffset[2]>>

\* ------------------------------------------------------------------ windowing
getSquareDistance(pose_a, pose_b) ==
  LET x_diff == pose_a[1] - pose_b[1]
      y_diff == pose_a[2] - pose_b[2]
  IN x_diff * x_diff + y_diff * y_diff

Min(a, b) == IF a < b THEN a ELSE b

\* std::find_if(first, last, pred) on a sequence, given pred of each element
\* as a sequence of booleans: index of the first element in first..Len(hits)
\* satisfying pred, Len(hits) + 1 (end) when there is none.
RECURSIVE FindIf(_, _)
FindIf(hits, first) ==
  IF first > Len(hits) THEN Len(hits) + 1
  ELSE IF hits[first] THEN first
  ELSE FindIf(hits, first + 1)

sq_dist_threshold == costmap_half * costmap_half
sq_prune_dist == prune_distance_ * prune_distance_

sq_transform_start_threshold ==
  IF prune_plan_ THEN Min(sq_dist_threshold, sq_prune_dist) ELSE sq_dist_threshold

\* shorten_transformed_plan is the constant true
sq_transform_end_threshold == Min(sq_dist_threshold, sq_prune_dist)

\* the search for the first pose to transform accepting a pose at exactly
\* the threshold
transformation_beginInclusive(plan, robot_pose) ==
  FindIf([i \in 1..Len(plan) |->
            getSquareDistance(robot_pose, plan[i]) <= sq_transform_start_threshold], 1)

transformation_begin(plan, robot_pose) ==
  FindIf([i \in 1..Len(plan) |->
            getSquareDistance(robot_pose, plan[i]) < sq_transform_start_threshold], 1)

transformation_end(plan, robot_pose) ==
  FindIf([i \in 1..Len(plan) |->
            getSquareDistance(robot_pose, plan[i]) > sq_transform_end_threshold],
         transformation_begin(plan, robot_pose))

ErasePrefix(plan, first) == SubSeq(plan, first, Len(plan))

\* transformGlobalPlan going on when transformPose reports a failure
transformGlobalPlanNoTfCheck(plan, p, tf_ok) ==
  IF Len(plan) = 0
  THEN [exception |-> "PlannerException", transformed |-> <<>>, plan |-> plan]
  ELSE LET robot_pose == ToPlanFrame(p)
           b == transformation_begin(plan, robot_pose)
           e == transformation_end(plan, robot_pose)
           transformed == [i \in 1..(e - b) |-> ToLocal(plan[b + i - 1])]
           left == IF prune_plan_ THEN ErasePrefix(plan, b) ELSE plan
       IN [exception |-> IF Len(transformed) = 0 THEN "PlannerException" ELSE NoException,
           transformed |-> transformed,
           plan |-> left]

\* transformGlobalPlan with the prune_plan_ test of the erase dropped
transformGlobalPlanAlwaysPrune(plan, p, tf_ok) ==
  IF Len(plan) = 0
  THEN [exception |-> "PlannerException", transformed |-> <<>>, plan |-> plan]
  ELSE IF ~tf_ok
  THEN [exception |-> "PlannerTFException", transformed |-> <<>>, plan |-> plan]
  ELSE LET robot_pose == ToPlanFrame(p)
           b == transformation_begin(plan, robot_pose)
           e == transformation_end(plan, robot_pose)
           transformed == [i \in 1..(e - b) |-> ToLocal(plan[b + i - 1])]
       IN [exception |-> IF Len(transformed) = 0 THEN "PlannerException" ELSE NoException,
           transformed |-> transformed,
           plan |-> ErasePrefix(plan, b)]

\* transformGlobalPlan(pose): the exception it throws (or none), the local
\* path it returns and the stored plan it leaves behind.
transformGlobalPlan(plan, p, tf_ok) ==
  IF Len(plan) = 0
  THEN [exception |-> "PlannerException", transformed |-> <<>>, plan |-> plan]
  ELSE IF ~tf_ok
  THEN [exception |-> "PlannerTFException", transformed |-> <<>>, plan |-> plan]
  ELSE LET robot_pose == ToPlanFrame(p)
           b == transformation_begin(plan, robot_pose)
           e == transformation_end(plan, robot_pose)
           transformed == [i \in 1..(e - b) |-> ToLocal(plan[b + i - 1])]
           left == IF prune_plan_ THEN ErasePrefix(plan, b) ELSE plan
       IN [exception |-> IF Len(transformed) = 0 THEN "PlannerException" ELSE NoException,
           transformed |-> transformed,
           plan |-> left]

\* prepareGlobalPlan with the goal taken from the end of the local window
prepareGlobalPlanWindowGoal(plan, p, tf_ok) ==
  LET r == transformGlobalPlan(plan, p, tf_ok)
  IN [exception |-> r.exception,
      transformed |-> r.transformed,
      plan |-> r.plan,
      goal |-> IF r.exception = NoException
               THEN r.transformed[Len(r.transformed)] ELSE <<0, 0>>]

\* prepareGlobalPlan(pose, transformed_plan, goal_pose): transformGlobalPlan,
\* then the last pose of the stored plan in the costmap's frame. Nothing is
\* assigned to goal_pose when transformGlobalPlan throws.
prepareGlobalPlan(plan, p, tf_ok) ==
  LET r == transformGlobalPlan(plan, p, tf_ok)
  IN [exception |-> r.exception,
      transformed |-> r.transformed,
      plan |-> r.plan,
      goal |-> IF r.exception = NoException
               THEN ToLocal(r.plan[Len(r.plan)]) ELSE <<0, 0>>]

\* setPlan storing the new path behind the poses still stored
storePlanAppend(old, path) == old \o path

\* global_plan_ = path in setPlan
storePlan(old, path) == path

\* ------------------------------------------------------------------ scoring
\* scoreTrajectory whose early exit reports the total it had before the
\* critic that crossed the threshold was added
RECURSIVE scoreLoopStale(_, _, _, _, _)
scoreLoopStale(out, best_score, i, total, called) ==
  IF i > Len(critics_)
  THEN [total |-> total, illegal |-> 0, called |-> called]
  ELSE IF scale[i] = 0
  THEN scoreLoopStale(out, best_score, i + 1, total, called)
  ELSE IF out[i].illegal
  THEN [total |-> total, illegal |-> i, called |-> Append(called, i)]
  ELSE LET t == total + out[i].raw * scale[i]
       IN IF best_score > 0 /\ t > best_score
          THEN [total |-> total, illegal |-> 0, called |-> Append(called, i)]
          ELSE scoreLoopStale(out, best_score, i + 1, t, Append(called, i))

scoreTrajectoryStale(out, best_score) == scoreLoopStale(out, best_score, 1, 0, <<>>)

\* scoreTrajectory without the "cs.scale == 0.0" test: every critic scores
RECURSIVE scoreLoopNoSkip(_, _, _, _, _)
scoreLoopNoSkip(out, best_score, i, total, called) ==
  IF i > Len(critics_)
  THEN [total |-> total, illegal |-> 0, called |-> called]
  ELSE IF out[i].illegal
  THEN [total |-> total, illegal |-> i, called |-> Append(called, i)]
  ELSE LET t == total + out[i].raw * scale[i]
       IN IF best_score > 0 /\ t > best_score
          THEN [total |-> t, illegal |-> 0, called |-> Append(called, i)]
          ELSE scoreLoopNoSkip(out, best_score, i + 1, t, Append(called, i))

\* scoreTrajectory(traj, best_score): the loop over critics_, from critic i
\* on, with the running total. illegal names the critic that threw (0: none),
\* called lists the critics whose scoreTrajectory was invoked.
RECURSIVE scoreLoop(_, _, _, _, _)
scoreLoop(out, best_score, i, total, called) ==
  IF i > Len(critics_)
  THEN [total |-> total, illegal |-> 0, called |-> called]
  ELSE IF scale[i] = 0
  THEN scoreLoop(out, best_score, i + 1, total, called)
  ELSE IF out[i].illegal
  THEN [total |-> total, illegal |-> i, called |-> Append(called, i)]
  ELSE LET t == total + out[i].raw * scale[i]
       IN IF best_score > 0 /\ t > best_score
          THEN [total |-> t, illegal |-> 0, called |-> Append(called, i)]
          ELSE scoreLoop(out, best_score, i + 1, t, Append(called, i))

scoreTrajectory(out, best_score) == scoreLoop(out, best_score, 1, 0, <<>>)

\* best and worst before any trajectory is scored (total = -1)
NoScore == [total |-> 0 - 1, twist |-> ZeroTwist]

\* locals of coreScoringAlgorithm before the loop; twist numbers the twists
\* nextTwist has returned, the two counts are the IllegalTrajectoryTracker
CoreInit ==
  [best |-> NoScore, worst |-> NoScore, twist |-> ZeroTwist,
   legal_count |-> 0, illegal_count |-> [c \in CriticIds |-> 0]]

\* One pass of the while loop of coreScoringAlgorithm for the next twist,
\* whose trajectory the critics treat as `out`, scored against the threshold
\* best_score.
coreStepWith(c, out, best_score) ==
  LET twist == c.twist + 1
      score == scoreTrajectory(out, best_score)
      mine == [total |-> score.total, twist |-> twist]
  IN IF score.illegal # 0
     THEN [c EXCEPT !.twist = twist,
                    !.illegal_count[score.illegal] = @ + 1]
     ELSE [c EXCEPT !.twist = twist,
                    !.legal_count = @ + 1,
                    !.best = IF c.best.total < 0 \/ score.total < c.best.total
                             THEN mine ELSE @,
                    !.worst = IF c.worst.total < 0 \/ score.total > c.worst.total
                              THEN mine ELSE @]

\* the loop body comparing with <= : the last of equal totals wins
coreStepLastWins(c, out) ==
  LET twist == c.twist + 1
      score == scoreTrajectory(out, c.best.total)
      mine == [total |-> score.total, twist |-> twist]
  IN IF score.illegal # 0
     THEN [c EXCEPT !.twist = twist,
                    !.illegal_count[score.illegal] = @ + 1]
     ELSE [c EXCEPT !.twist = twist,
                    !.legal_count = @ + 1,
                    !.best = IF c.best.total < 0 \/ score.total <= c.best.total
                             THEN mine ELSE @,
                    !.worst = IF c.worst.total < 0 \/ score.total > c.worst.total
                              THEN mine ELSE @]

\* the loop body without the "best.total < 0 ||" test for the first score
coreStepNoFirst(c, out) ==
  LET twist == c.twist + 1
      score == scoreTrajectory(out, c.best.total)
      mine == [total |-> score.total, twist |-> twist]
  IN IF score.illegal # 0
     THEN [c EXCEPT !.twist = twist,
                    !.illegal_count[score.illegal] = @ + 1]
     ELSE [c EXCEPT !.twist = twist,
                    !.legal_count = @ + 1,
                    !.best = IF score.total < c.best.total THEN mine ELSE @,
                    !.worst = IF c.worst.total < 0 \/ score.total > c.worst.total
                              THEN mine ELSE @]

\* the loop body whose catch block does not tell the tracker
coreStepDropIllegal(c, out) ==
  LET twist == c.twist + 1
      score == scoreTrajectory(out, c.best.total)
      mine == [total |-> score.total, twist |-> twist]
  IN IF score.illegal # 0
     THEN [c EXCEPT !.twist = twist]
     ELSE [c EXCEPT !.twist = twist,
                    !.legal_count = @ + 1,
                    !.best = IF c.best.total < 0 \/ score.total < c.best.total
                             THEN mine ELSE @,
                    !.worst = IF c.worst.total < 0 \/ score.total > c.worst.total
                              THEN mine ELSE @]

\* the loop body as coreScoringAlgorithm runs it: best.total is the threshold
coreStep(c, out) == coreStepWith(c, out, c.best.total)

\* results == nullptr, and the LocalPlanEvaluation make_shared constructs
NoResults == [present |-> FALSE, twists |-> <<>>, best_index |-> 0, worst_index |-> 0]
NewResults == [present |-> TRUE, twists |-> <<>>, best_index |-> 0, worst_index |-> 0]

\* the "if (results)" blocks comparing the total with best's for worst_index
recordScoreWorstAgainstBest(res, c, out) ==
  LET score == scoreTrajectory(out, c.best.total)
      index == Len(res.twists)
  IN IF ~res.present THEN res
     ELSE IF score.illegal # 0
     THEN [res EXCEPT !.twists = Append(@, [total |-> 0 - 1, critic |-> score.illegal,
                                             twist |-> c.twist + 1])]
     ELSE [res EXCEPT !.twists = Append(@, [total |-> score.total, critic |-> 0,
                                             twist |-> c.twist + 1]),
                      !.best_index = IF c.best.total < 0 \/ score.total < c.best.total
                                     THEN index ELSE @,
                      !.worst_index = IF c.worst.total < 0 \/ score.total > c.best.total
                                      THEN index ELSE @]

\* the "if (results)" blocks of the loop body: the score pushed on
\* results->twists (total -1 and the name of the critic for an illegal
\* trajectory), best_index and worst_index set to twists.size() - 1
recordScore(res, c, out) ==
  LET score == scoreTrajectory(out, c.best.total)
      index == Len(res.twists)
  IN IF ~res.present THEN res
     ELSE IF score.illegal # 0
     THEN [res EXCEPT !.twists = Append(@, [total |-> 0 - 1, critic |-> score.illegal,
                                             twist |-> c.twist + 1])]
     ELSE [res EXCEPT !.twists = Append(@, [total |-> score.total, critic |-> 0,
                                             twist |-> c.twist + 1]),
                      !.best_index = IF c.best.total < 0 \/ score.total < c.best.total
                                     THEN index ELSE @,
                      !.worst_index = IF c.worst.total < 0 \/ score.total > c.worst.total
                                      THEN index ELSE @]

\* the loop body updating best only where the results are recorded
coreScoringStepBestInsideIf(c, res, out) ==
  [core |-> IF res.present THEN coreStep(c, out)
            ELSE [coreStep(c, out) EXCEPT !.best = IF c.best.total < 0 THEN @ ELSE c.best],
   results |-> recordScore(res, c, out)]

\* one pass of the while loop of coreScoringAlgorithm: its locals and the
\* results after it
coreScoringStep(c, res, out) ==
  [core |-> coreStep(c, out), results |-> recordScore(res, c, out)]

Event(name, critic, twist, ok) ==
  [call |-> name, critic |-> critic, twist |-> twist, ok |-> ok]

\* setPlan: reset on every critic
resetCalls == [i \in CriticIds |-> Event("reset", i, ZeroTwist, TRUE)]

\* the prepare loop leaving at the first critic that fails to prepare
prepareCallsUntilFailure(ok) ==
  LET n == Cardinality({i \in CriticIds : \A j \in 1..(i - 1) : ok[j]})
  IN [i \in 1..n |-> Event("prepare", i, ZeroTwist, ok[i])]

\* computeVelocityCommands: prepare on every critic, ok[i] what it returns
prepareCalls(ok) == [i \in CriticIds |-> Event("prepare", i, ZeroTwist, ok[i])]

\* the critic->scoreTrajectory calls of one scoreTrajectory
scoreCalls(twist, called) ==
  [j \in 1..Len(called) |-> Event("score", called[j], twist, TRUE)]

debriefCalls(twist) == [i \in CriticIds |-> Event("debrief", i, twist, TRUE)]

\* computeVelocityCommands whose catch block rethrows without debriefing
finishCycleNoDebrief(c) ==
  IF c.best.total < 0
  THEN [exception |-> "NoLegalTrajectoriesException", cmd_vel |-> ZeroTwist,
        debrief |-> <<>>]
  ELSE [exception |-> NoException, cmd_vel |-> c.best.twist,
        debrief |-> debriefCalls(c.best.twist)]

\* The end of a cycle, from the locals of coreScoringAlgorithm after its
\* loop: it throws NoLegalTrajectoriesException or returns best, and
\* computeVelocityCommands debriefs the critics in its catch block (with
\* empty_cmd) or after the call (with best's velocity).
finishCycle(c) ==
  IF c.best.total < 0
  THEN [exception |-> "NoLegalTrajectoriesException", cmd_vel |-> ZeroTwist,
        debrief |-> debriefCalls(ZeroTwist)]
  ELSE [exception |-> NoException, cmd_vel |-> c.best.twist,
        debrief |-> debriefCalls(c.best.twist)]

\* ------------------------------------------------------------------ kinematics
Twist2D(x, y, theta) == [x |-> x, y |-> y, theta |-> theta]
Pose2D(x, y, theta) == [x |-> x, y |-> y, theta |-> theta]

fabs(v) == IF v < 0 THEN 0 - v ELSE v

\* KinematicParameters::initialize: the three speed thresholds as read from
\* the parameters and the cached squares of the two xy thresholds
initialize(min_speed_xy, max_speed_xy, min_speed_theta) ==
  [min_speed_xy_ |-> min_speed_xy,
   max_speed_xy_ |-> max_speed_xy,
   min_speed_theta_ |-> min_speed_theta,
   min_speed_xy_sq_ |-> min_speed_xy * min_speed_xy,
   max_speed_xy_sq_ |-> max_speed_xy * max_speed_xy]

\* isValidSpeed comparing the squares whatever the sign of max_speed_xy_
isValidSpeedUnguarded(k, x, y, theta) ==
  LET vmag_sq == x * x + y * y
  IN IF vmag_sq > k.max_speed_xy_sq_ THEN FALSE
     ELSE IF /\ k.min_speed_xy_ >= 0 /\ vmag_sq < k.min_speed_xy_sq_
             /\ k.min_speed_theta_ >= 0 /\ fabs(theta) < k.min_speed_theta_ THEN FALSE
     ELSE IF vmag_sq = 0 /\ theta = 0 THEN FALSE
     ELSE TRUE

\* isValidSpeed rejecting a twist without translation whatever its rotation
isValidSpeedNoRotation(k, x, y, theta) ==
  LET vmag_sq == x * x + y * y
  IN IF k.max_speed_xy_ >= 0 /\ vmag_sq > k.max_speed_xy_sq_ THEN FALSE
     ELSE IF /\ k.min_speed_xy_ >= 0 /\ vmag_sq < k.min_speed_xy_sq_
             /\ k.min_speed_theta_ >= 0 /\ fabs(theta) < k.min_speed_theta_ THEN FALSE
     ELSE IF vmag_sq = 0 THEN FALSE
     ELSE TRUE

\* isValidSpeed rejecting a twist when its translation or its rotation is zero
isValidSpeedZeroEither(k, x, y, theta) ==
  LET vmag_sq == x * x + y * y
  IN IF k.max_speed_xy_ >= 0 /\ vmag_sq > k.max_speed_xy_sq_ THEN FALSE
     ELSE IF /\ k.min_speed_xy_ >= 0 /\ vmag_sq < k.min_speed_xy_sq_
             /\ k.min_speed_theta_ >= 0 /\ fabs(theta) < k.min_speed_theta_ THEN FALSE
     ELSE IF vmag_sq = 0 \/ theta = 0 THEN FALSE
     ELSE TRUE

\* isValidSpeed without the test for the all-zero twist
isValidSpeedZeroAllowed(k, x, y, theta) ==
  LET vmag_sq == x * x + y * y
  IN IF k.max_speed_xy_ >= 0 /\ vmag_sq > k.max_speed_xy_sq_ THEN FALSE
     ELSE IF /\ k.min_speed_xy_ >= 0 /\ vmag_sq < k.min_speed_xy_sq_
             /\ k.min_speed_theta_ >= 0 /\ fabs(theta) < k.min_speed_theta_ THEN FALSE
     ELSE TRUE

\* KinematicParameters::isValidSpeed(x, y, theta) on the parameters k
isValidSpeed(k, x, y, theta) ==
  LET vmag_sq == x * x + y * y
  IN IF k.max_speed_xy_ >= 0 /\ vmag_sq > k.max_speed_xy_sq_ THEN FALSE
     ELSE IF /\ k.min_speed_xy_ >= 0 /\ vmag_sq < k.min_speed_xy_sq_
             /\ k.min_speed_theta_ >= 0 /\ fabs(theta) < k.min_speed_theta_ THEN FALSE
     ELSE IF vmag_sq = 0 /\ theta = 0 THEN FALSE
     ELSE TRUE

\* ------------------------------------------------------------------ velocity sample space
\* Velocities are integers in a unit in which every grid is integral.
Max(a, b) == IF a > b THEN a ELSE b

\* one axis of the kinematic limits with its sample count
Axis(min_vel, max_vel, acc_lim, decel_lim, samples) ==
  [min_vel |-> min_vel, max_vel |-> max_vel, acc_lim |-> acc_lim,
   decel_lim |-> decel_lim, samples |-> samples]

\* the admissible range of an axis: the absolute limits (static-limits
\* policy), or their intersection with what the acceleration limits reach
\* from the current velocity in one control interval (dynamic window)
\* a range that ignores the policy
axisRangeStatic(use_dwa, a, current) == <<a.min_vel, a.max_vel>>

axisRange(use_dwa, a, current) ==
  IF ~use_dwa THEN <<a.min_vel, a.max_vel>>
  ELSE LET c == Max(a.min_vel, Min(a.max_vel, current))
       IN <<Max(a.min_vel, c + a.decel_lim), Min(a.max_vel, c + a.acc_lim)>>

\* the evenly spaced grid of n samples across lo..hi
evenGrid(lo, hi, n) ==
  IF lo = hi THEN <<lo>>
  ELSE [k \in 1..n |-> lo + (k - 1) * ((hi - lo) \div (n - 1))]

gridIsIntegral(lo, hi, n) == lo = hi \/ (hi - lo) % (n - 1) = 0

\* the grid with the sample 0 added in its place when the grid passes over 0
withZero(g) ==
  LET below == Cardinality({k \in 1..Len(g) : g[k] < 0})
  IN IF below = 0 \/ below = Len(g) \/ \E k \in 1..Len(g) : g[k] = 0 THEN g
     ELSE SubSeq(g, 1, below) \o <<0>> \o SubSeq(g, below + 1, Len(g))

axisGrid(use_dwa, a, current) ==
  LET r == axisRange(use_dwa, a, current) IN evenGrid(r[1], r[2], a.samples)

hasMoreTwists(it) == it.ix <= Len(it.xs)

getVelocity(it) == Twist2D(it.xs[it.ix], it.ys[it.iy], it.ths[it.ith])

isValidVelocity(k, it) ==
  LET v == getVelocity(it) IN isValidSpeed(k, v.x, v.y, v.theta)

\* one step of the iteration: theta runs fastest, then y, then x
increment(it) ==
  IF it.ith < Len(it.ths) THEN [it EXCEPT !.ith = @ + 1]
  ELSE IF it.iy < Len(it.ys) THEN [it EXCEPT !.ith = 1, !.iy = @ + 1]
  ELSE [it EXCEPT !.ith = 1, !.iy = 1, !.ix = @ + 1]

\* step until the velocity is valid or the sample space is exhausted
RECURSIVE iterateToValidVelocity(_, _)
iterateToValidVelocity(k, it) ==
  LET n == increment(it)
  IN IF hasMoreTwists(n) /\ ~isValidVelocity(k, n)
     THEN iterateToValidVelocity(k, n) ELSE n

\* startNewIteration(current_velocity): the three grids, the zero-theta
\* slice added, positioned on the first valid velocity
startNewIteration(k, lim, current) ==
  LET it == [xs |-> withZero(axisGrid(lim.use_dwa, lim.x, current.x)),
             ys |-> withZero(axisGrid(lim.use_dwa, lim.y, current.y)),
             ths |-> withZero(axisGrid(lim.use_dwa, lim.theta, current.theta)),
             ix |-> 1, iy |-> 1, ith |-> 1]
  IN IF isValidVelocity(k, it) THEN it ELSE iterateToValidVelocity(k, it)

NoIterator == [xs |-> <<>>, ys |-> <<>>, ths |-> <<>>, ix |-> 1, iy |-> 1, ith |-> 1]

\* ------------------------------------------------------------------ trajectory generator
\* Times, velocities and positions are integers; a heading is an integer
\* number of angle units, generator.quarter_turn of them to the quarter
\* turn, and cos and sin are exact on whole quarter turns.
ceilDiv(a, b) == (a + b - 1) \div b

\* ceil(sqrt(sq) / d): the least n with n * d >= sqrt(sq)
RECURSIVE ceilSqrtDivFrom(_, _, _)
ceilSqrtDivFrom(sq, d, n) ==
  IF n * n * d * d >= sq THEN n ELSE ceilSqrtDivFrom(sq, d, n + 1)
ceilSqrtDiv(sq, d) == ceilSqrtDivFrom(sq, d, 0)

\* getTimeSteps counting the steps by the linear granularity alone
getTimeStepsLinearOnly(g, cmd) ==
  LET n == IF g.discretize_by_time THEN ceilDiv(g.sim_time, g.time_granularity)
           ELSE ceilSqrtDiv((cmd.x * cmd.x + cmd.y * cmd.y) * g.sim_time * g.sim_time,
                            g.linear_granularity)
  IN [size |-> IF n = 0 THEN 1 ELSE n, sim_time |-> g.sim_time]

\* getTimeSteps(cmd_vel): size equal steps of sim_time / size each
getTimeSteps(g, cmd) ==
  LET n == IF g.discretize_by_time THEN ceilDiv(g.sim_time, g.time_granularity)
           ELSE Max(ceilSqrtDiv((cmd.x * cmd.x + cmd.y * cmd.y) * g.sim_time * g.sim_time,
                                g.linear_granularity),
                    ceilDiv(fabs(cmd.theta) * g.sim_time, g.angular_granularity))
  IN [size |-> IF n = 0 THEN 1 ELSE n, sim_time |-> g.sim_time]

\* the velocity an axis reaches in dt from v0 on the way to target
projectVelocity(v0, accel, decel, dt, target) ==
  IF v0 < target THEN Min(target, v0 + accel * dt)
  ELSE Max(target, v0 + decel * dt)

\* computeNewVelocity reaching the command at once
computeNewVelocityUnlimited(lim, cmd, start, dt) == cmd

\* computeNewVelocity(cmd_vel, start_vel, dt)
computeNewVelocity(lim, cmd, start, dt) ==
  Twist2D(projectVelocity(start.x, lim.x.acc_lim, lim.x.decel_lim, dt, cmd.x),
          projectVelocity(start.y, lim.y.acc_lim, lim.y.decel_lim, dt, cmd.y),
          projectVelocity(start.theta, lim.theta.acc_lim, lim.theta.decel_lim, dt,
                          cmd.theta))

cos(q, theta) == <<1, 0, 0 - 1, 0>>[((theta \div q) % 4) + 1]
sin(q, theta) == <<0, 1, 0, 0 - 1>>[((theta \div q) % 4) + 1]

\* computeNewPosition(start_pose, vel, dt)
computeNewPosition(q, p, vel, dt) ==
  Pose2D(p.x + (vel.x * cos(q, p.theta) - vel.y * sin(q, p.theta)) * dt,
         p.y + (vel.x * sin(q, p.theta) + vel.y * cos(q, p.theta)) * dt,
         p.theta + vel.theta * dt)

\* the loop of generateTrajectory over the remaining n steps
RECURSIVE trajectoryLoop(_, _, _, _, _, _, _, _)
trajectoryLoop(q, lim, cmd, p, vel, dt, n, acc) ==
  IF n = 0 THEN [poses |-> Append(acc.poses, p), vels |-> acc.vels]
  ELSE LET v == computeNewVelocity(lim, cmd, vel, dt)
       IN trajectoryLoop(q, lim, cmd, computeNewPosition(q, p, v, dt), v, dt, n - 1,
                         [poses |-> Append(acc.poses, p), vels |-> Append(acc.vels, v)])

\* generateTrajectory(start_pose, start_vel, cmd_vel); vels is the history
\* of the velocities of the steps
generateTrajectory(g, lim, start_pose, start_vel, cmd) ==
  LET steps == getTimeSteps(g, cmd)
      dt == steps.sim_time \div steps.size
      r == trajectoryLoop(g.quarter_turn, lim, cmd, start_pose, start_vel, dt, steps.size,
                          [poses |-> <<>>, vels |-> <<>>])
  IN [done |-> TRUE, velocity |-> cmd, poses |-> r.poses, duration |-> steps.size * dt,
      vels |-> r.vels]

NoTrajectory ==
  [done |-> FALSE, velocity |-> Twist2D(0, 0, 0), poses |-> <<>>, duration |-> 0,
   vels |-> <<>>]
NoSteps == [size |-> 0, sim_time |-> 0]

\* ------------------------------------------------------------------ goal checkers
\* the angle brought into -HalfTurn .. HalfTurn - 1 by whole turns
normalize_angle(a) == ((a + HalfTurn) % (2 * HalfTurn)) - HalfTurn

shortest_angular_distance(from, to) == normalize_angle(to - from)

\* the proximity variant comparing the heading difference as it is
simpleIsGoalReachedRawYaw(t, query_pose, goal, velocity) ==
  LET dx == query_pose.x - goal.x
      dy == query_pose.y - goal.y
  IN IF dx * dx + dy * dy > t.xy_goal_tolerance * t.xy_goal_tolerance THEN FALSE
     ELSE fabs(goal.theta - query_pose.theta) <= t.yaw_goal_tolerance

\* SimpleGoalChecker::isGoalReached(query_pose, goal, velocity)
simpleIsGoalReached(t, query_pose, goal, velocity) ==
  LET dx == query_pose.x - goal.x
      dy == query_pose.y - goal.y
  IN IF dx * dx + dy * dy > t.xy_goal_tolerance * t.xy_goal_tolerance THEN FALSE
     ELSE fabs(shortest_angular_distance(query_pose.theta, goal.theta))
            <= t.yaw_goal_tolerance

\* the stopped variant looking at the velocity only
stoppedIsGoalReachedVelocityOnly(t, query_pose, goal, velocity) ==
  /\ velocity.x * velocity.x + velocity.y * velocity.y
       <= t.trans_stopped_velocity * t.trans_stopped_velocity
  /\ fabs(velocity.theta) <= t.rot_stopped_velocity

\* StoppedGoalChecker::isGoalReached(query_pose, goal, velocity)
stoppedIsGoalReached(t, query_pose, goal, velocity) ==
  IF ~simpleIsGoalReached(t, query_pose, goal, velocity) THEN FALSE
  ELSE /\ velocity.x * velocity.x + velocity.y * velocity.y
            <= t.trans_stopped_velocity * t.trans_stopped_velocity
       /\ fabs(velocity.theta) <= t.rot_stopped_velocity

NoAnswer == [called |-> FALSE, simple |-> FALSE, stopped |-> FALSE]

\* ------------------------------------------------------------------ goal check
\* goal_checker_->isGoalReached on positions: within the xy tolerance.
xy_goal_tolerance_sq == 0
goalCheck(query_pose, goal) == getSquareDistance(query_pose, goal) <= xy_goal_tolerance_sq

\* isGoalReached checking against the path given to the last setPlan
isGoalReachedSetPlan(plan, p) ==
  IF Len(set_plan) = 0 THEN FALSE
  ELSE goalCheck(p, ToLocal(set_plan[Len(set_plan)]))

\* isGoalReached(pose, velocity) on the stored plan: false without a pose
\* to check against, else the goal checker on the pose and the last stored
\* pose, both in the costmap's frame
isGoalReached(plan, p) ==
  IF Len(plan) = 0 THEN FALSE
  ELSE goalCheck(p, ToLocal(plan[Len(plan)]))

\* ------------------------------------------------------------------ states
NoPose == <<0, 0>>

Locals ==
  /\ pose = NoPose
  /\ transformed_plan = <<>>
  /\ goal_pose = NoPose
  /\ core = CoreInit
  /\ calls = <<>>
  /\ cmd_vel = ZeroTwist
  /\ exception = NoException
  /\ goal_reached = FALSE
  /\ transformable = TRUE
  /\ given = <<>>
  /\ scored = <<>>
  /\ results = NoResults

ClearLocals ==
  /\ pose' = NoPose
  /\ transformed_plan' = <<>>
  /\ goal_pose' = NoPose
  /\ core' = CoreInit
  /\ calls' = <<>>
  /\ cmd_vel' = ZeroTwist
  /\ exception' = NoException
  /\ goal_reached' = FALSE
  /\ transformable' = TRUE
  /\ given' = <<>>
  /\ scored' = <<>>
  /\ results' = NoResults

\* a default-constructed KinematicParameters, isValidSpeed not called yet
KinematicsIdle ==
  /\ kinematics_ = initialize(0, 0, 0)
  /\ speed = Twist2D(0, 0, 0)
  /\ valid = FALSE

NoLimits ==
  [use_dwa |-> FALSE, x |-> Axis(0, 0, 0, 0, 2), y |-> Axis(0, 0, 0, 0, 2),
   theta |-> Axis(0, 0, 0, 0, 2)]

\* no iteration started
NoExtent ==
  [current |-> Twist2D(0, 0, 0), lo |-> Twist2D(0, 0, 0), hi |-> Twist2D(0, 0, 0)]

IteratorIdle ==
  /\ velocity_iterator_ = NoIterator
  /\ last_twist = Twist2D(0, 0, 0)
  /\ n_twists = 0
  /\ extent = NoExtent

\* the goal checkers not asked anything
GoalCheckersIdle ==
  /\ tolerances = [xy_goal_tolerance |-> 0, yaw_goal_tolerance |-> 0,
                   trans_stopped_velocity |-> 0, rot_stopped_velocity |-> 0]
  /\ query = [pose |-> Pose2D(0, 0, 0), goal |-> Pose2D(0, 0, 0),
              velocity |-> Twist2D(0, 0, 0)]
  /\ answer = NoAnswer

\* the trajectory generator not asked anything
GeneratorIdle ==
  /\ generator = [sim_time |-> 1, discretize_by_time |-> FALSE, time_granularity |-> 1,
                  linear_granularity |-> 1, angular_granularity |-> 1,
                  quarter_turn |-> 1]
  /\ request = [start_pose |-> Pose2D(0, 0, 0), start_vel |-> Twist2D(0, 0, 0),
                cmd_vel |-> Twist2D(0, 0, 0)]
  /\ time_steps = NoSteps
  /\ traj = NoTrajectory

NoParameters ==
  [use_dwa |-> "unset", sim_time |-> 1, discretize_by_time |-> FALSE,
   time_granularity |-> 1, linear_granularity |-> 1, angular_granularity |-> 1,
   quarter_turn |-> 1]

SetupIdle ==
  /\ parameters = NoParameters
  /\ gen_class = "none"
  /\ init_outcome = "none"

\* an Odometry message: its header (a sequence number here) and its twist
Odometry(header, x, y, theta) == [header |-> header, x |-> x, y |-> y, theta |-> theta]

OdomVelocities == {Twist2D(2, 0, 2), Twist2D(1, 0 - 2, 0 - 1), Twist2D(1, 0, 2)}

abs(v) == IF v < 0 THEN 0 - v ELSE v

\* thresholded_velocity(velocity, threshold)
thresholded_velocity(velocity, threshold) == IF abs(velocity) > threshold THEN velocity ELSE 0

\* the Twist2DStamped odomCallback stores for a message
stampedTwist(sub, msg) ==
  [header |-> msg.header,
   x |-> thresholded_velocity(msg.x, sub.min_x_velocity_threshold_),
   y |-> thresholded_velocity(msg.y, sub.min_y_velocity_threshold_),
   theta |-> thresholded_velocity(msg.theta, sub.min_theta_velocity_threshold_)]

\* the subscriber after its constructor
OdomSubscriber(tx, ty, tw) ==
  [odom_vel_ |-> [header |-> 0, x |-> 0, y |-> 0, theta |-> 0],
   odom_mutex_ |-> "free",
   min_x_velocity_threshold_ |-> tx, min_y_velocity_threshold_ |-> ty,
   min_theta_velocity_threshold_ |-> tw]

NoThreads ==
  [callback |-> [pc |-> "idle", msg |-> Odometry(0, 0, 0, 0)],
   getter |-> [pc |-> "idle", stamped |-> FALSE,
               copy |-> [header |-> 0, x |-> 0, y |-> 0, theta |-> 0]]]

NoOdomLog ==
  [received |-> {}, returned |-> FALSE, stamped |-> FALSE,
   value |-> [header |-> 0, x |-> 0, y |-> 0, theta |-> 0]]

OdomIdle ==
  /\ odom = OdomSubscriber(0, 0, 0)
  /\ threads = NoThreads
  /\ odom_log = NoOdomLog

\* std::numeric_limits<float>::max(), which absorbs every radius added to it
FloatMax == 1000

Box(min_x, min_y, max_x, max_y) ==
  [min_x |-> min_x, min_y |-> min_y, max_x |-> max_x, max_y |-> max_y]

WholeMap == Box(0 - FloatMax, 0 - FloatMax, FloatMax, FloatMax)

\* a double plus a radius
plus(v, r) == IF v = FloatMax \/ v = 0 - FloatMax THEN v ELSE v + r

\* the layer after its constructor and onInitialize
InflationLayer(radius) ==
  [inflation_radius_ |-> radius, need_reinflation_ |-> FALSE,
   last_min_x_ |-> 0 - FloatMax, last_min_y_ |-> 0 - FloatMax,
   last_max_x_ |-> FloatMax, last_max_y_ |-> FloatMax]

NoInflationLog ==
  [calls |-> 0, changed |-> FALSE, passed |-> Box(0, 0, 0, 0), previous |-> Box(0, 0, 0, 0),
   was_changed |-> FALSE]

InflationIdle ==
  /\ inflation = InflationLayer(0)
  /\ bounds = Box(0, 0, 0, 0)
  /\ infl_log = NoInflationLog

NoBackUp ==
  [pc |-> "idle", command_x_ |-> 0, initial_pose_ |-> [x |-> 0, y |-> 0],
   max_cycle_count |-> 0, integer_abs |-> FALSE]

NoWorld == [available |-> TRUE, x |-> 0, y |-> 0, collisions |-> {}]

NoCycle == [status |-> "none", published |-> <<>>, free |-> "not called"]

BackUpIdle ==
  /\ backup = NoBackUp
  /\ world = NoWorld
  /\ cycle = NoCycle

ComponentsIdle ==
  /\ OdomIdle
  /\ InflationIdle
  /\ BackUpIdle

MoreIdle ==
  /\ SetupIdle
  /\ ComponentsIdle

PluginsIdle ==
  /\ KinematicsIdle
  /\ limits = NoLimits
  /\ IteratorIdle
  /\ GoalCheckersIdle
  /\ GeneratorIdle
  /\ MoreIdle

\* the planner configured with every critic scoring, no plan set, no call
\* in progress
PlannerIdle ==
  /\ scale = [i \in CriticIds |-> MaxScale]
  /\ prune_plan_ = TRUE
  /\ prune_distance_ = MaxThreshold
  /\ costmap_half = MaxThreshold
  /\ global_plan_ = <<>>
  /\ set_plan = <<>>
  /\ pc = "idle"
  /\ op = "none"
  /\ Locals

\* The planner after on_configure, no plan set yet.
Init ==
  /\ scale \in [CriticIds -> 0..MaxScale]
  /\ prune_plan_ \in BOOLEAN
  /\ prune_distance_ \in 1..MaxThreshold
  /\ costmap_half \in 1..MaxThreshold
  /\ global_plan_ = <<>>
  /\ set_plan = <<>>
  /\ pc = "idle"
  /\ op = "none"
  /\ Locals
  /\ PluginsIdle

\* setPlan(path)
SetPlan(path) ==
  /\ pc = "idle"
  /\ calls' = resetCalls
  /\ global_plan_' = storePlan(global_plan_, path)
  /\ set_plan' = path
  /\ op' = "setPlan"
  /\ pc' = "returned"
  /\ UNCHANGED <<config, transformable, pose, transformed_plan, goal_pose, core, cmd_vel,
                 exception, goal_reached, given, scored, results>>
  /\ UNCHANGED plugins

\* isGoalReached(pose, velocity)
IsGoalReached(p) ==
  /\ pc = "idle"
  /\ pose' = p
  /\ op' = "isGoalReached"
  /\ pc' = "returned"
  /\ goal_reached' = isGoalReached(global_plan_, p)
  /\ goal_pose' = IF Len(global_plan_) = 0 THEN goal_pose
                  ELSE ToLocal(global_plan_[Len(global_plan_)])
  /\ UNCHANGED <<config, transformable, global_plan_, set_plan, transformed_plan, core,
                 calls, cmd_vel, exception, given, scored, results>>
  /\ UNCHANGED plugins

\* computeVelocityCommands(pose, velocity): results is made when the
\* publisher records evaluations, then computeVelocityCommands(pose,
\* velocity, results) up to and including prepareGlobalPlan, which may throw
ComputeVelocityCommands(p, tf_ok, record) ==
  /\ pc = "idle"
  /\ results' = IF record THEN NewResults ELSE NoResults
  /\ pose' = p
  /\ op' = "computeVelocityCommands"
  /\ transformable' = tf_ok
  /\ LET r == prepareGlobalPlan(global_plan_, p, tf_ok)
     IN /\ global_plan_' = r.plan
        /\ transformed_plan' = r.transformed
        /\ exception' = r.exception
        /\ goal_pose' = r.goal
        /\ pc' = IF r.exception = NoException THEN "prepare" ELSE "threw"
  /\ UNCHANGED <<config, set_plan, core, calls, cmd_vel, goal_reached, given, scored>>
  /\ UNCHANGED plugins

\* the loop calling prepare on every critic, then the entry of
\* coreScoringAlgorithm (startNewIteration)
PrepareCritics(ok) ==
  /\ pc = "prepare"
  /\ calls' = calls \o prepareCalls(ok)
  /\ core' = CoreInit
  /\ pc' = "scoring"
  /\ UNCHANGED <<config, transformable, global_plan_, set_plan, op, pose, transformed_plan,
                 goal_pose, cmd_vel, exception, goal_reached, given, scored, results>>
  /\ UNCHANGED plugins

\* hasMoreTwists is true: nextTwist, generateTrajectory, scoreTrajectory and
\* the bookkeeping of best, worst and the tracker
ScoreNextTwist(out) ==
  /\ pc = "scoring"
  /\ core.twist < MaxTwists
  /\ core' = coreScoringStep(core, results, out).core
  /\ results' = coreScoringStep(core, results, out).results
  /\ calls' = calls \o
       scoreCalls(core.twist + 1, scoreTrajectory(out, core.best.total).called)
  /\ UNCHANGED <<config, transformable, global_plan_, set_plan, pc, op, pose, transformed_plan,
                 goal_pose, cmd_vel, exception, goal_reached, given, scored>>
  /\ UNCHANGED plugins

\* The same pass of the loop, with the history of what the critics were
\* given and of what scoreTrajectory did with it.
ScoreNextTwistTraced(out) ==
  /\ pc = "scoring"
  /\ core.twist < MaxTwists
  /\ core' = coreScoringStep(core, results, out).core
  /\ results' = coreScoringStep(core, results, out).results
  /\ calls' = calls \o
       scoreCalls(core.twist + 1, scoreTrajectory(out, core.best.total).called)
  /\ given' = Append(given, out)
  /\ scored' = Append(scored, scoreTrajectory(out, core.best.total))
  /\ UNCHANGED <<config, transformable, global_plan_, set_plan, pc, op, pose, transformed_plan,
                 goal_pose, cmd_vel, exception, goal_reached>>
  /\ UNCHANGED plugins

\* hasMoreTwists is false: coreScoringAlgorithm returns or throws, the
\* critics are debriefed, computeVelocityCommands returns or rethrows
FinishScoring ==
  /\ pc = "scoring"
  /\ LET r == finishCycle(core)
     IN /\ exception' = r.exception
        /\ cmd_vel' = r.cmd_vel
        /\ calls' = calls \o r.debrief
        /\ pc' = IF r.exception = NoException THEN "returned" ELSE "threw"
  /\ UNCHANGED <<config, transformable, global_plan_, set_plan, op, pose, transformed_plan,
                 goal_pose, core, goal_reached, given, scored, results>>
  /\ UNCHANGED plugins

\* the call is over: its locals and results go out of scope
Return ==
  /\ pc \in {"returned", "threw"}
  /\ pc' = "idle"
  /\ op' = "none"
  /\ ClearLocals
  /\ UNCHANGED <<config, global_plan_, set_plan>>
  /\ UNCHANGED plugins

Next ==
  \/ \E path \in Paths : SetPlan(path)
  \/ \E p \in Poses : IsGoalReached(p)
  \/ \E p \in Poses, tf_ok \in BOOLEAN : ComputeVelocityCommands(p, tf_ok, FALSE)
  \/ \E ok \in [CriticIds -> BOOLEAN] : PrepareCritics(ok)
  \/ \E out \in CriticOutcomes : ScoreNextTwist(out)
  \/ FinishScoring
  \/ Return

Spec == Init /\ [][Next]_vars

\* ------------------------------------------------------------------ the scoring loop alone
\* coreScoringAlgorithm on the twists of one iteration: the planner inside a
\* cycle on a one-pose plan at the robot, the critics prepared, for every
\* configuration of scales.
InitCore ==
  /\ scale \in [CriticIds -> 0..MaxScale]
  /\ prune_plan_ = TRUE
  /\ prune_distance_ = 1
  /\ costmap_half = 1
  /\ global_plan_ = <<NoPose>>
  /\ set_plan = <<NoPose>>
  /\ pc = "scoring"
  /\ op = "computeVelocityCommands"
  /\ pose = ToLocal(NoPose)
  /\ transformed_plan = <<ToLocal(NoPose)>>
  /\ goal_pose = ToLocal(NoPose)
  /\ core = CoreInit
  /\ calls = prepareCalls([i \in CriticIds |-> TRUE])
  /\ cmd_vel = ZeroTwist
  /\ exception = NoException
  /\ goal_reached = FALSE
  /\ transformable = TRUE
  /\ given = <<>>
  /\ scored = <<>>
  /\ results = NoResults
  /\ PluginsIdle

NextCore ==
  \/ \E out \in CriticOutcomes : ScoreNextTwistTraced(out)
  \/ FinishScoring

SpecCore == InitCore /\ [][NextCore]_vars

\* ------------------------------------------------------------------ one cycle, recorded or not
\* One call of computeVelocityCommands on every stored plan as setPlan left
\* it, with and without a LocalPlanEvaluation to fill.
InitDiag ==
  /\ scale = [i \in CriticIds |-> MaxScale]
  /\ prune_plan_ \in BOOLEAN
  /\ prune_distance_ = 1
  /\ costmap_half = MaxThreshold
  /\ global_plan_ \in {path \in Paths : Len(path) # 1 /\ (Len(path) > 0 => path[1] = <<0, 0>>)}
  /\ set_plan = global_plan_
  /\ pc = "idle"
  /\ op = "none"
  /\ Locals
  /\ PluginsIdle

NextDiag ==
  \/ \E p \in Poses, tf_ok \in BOOLEAN, record \in BOOLEAN :
       ComputeVelocityCommands(p, tf_ok, record)
  \/ \E ok \in [CriticIds -> BOOLEAN] : PrepareCritics(ok)
  \/ \E out \in CriticOutcomes : ScoreNextTwistTraced(out)
  \/ FinishScoring

SpecDiag == InitDiag /\ [][NextDiag]_vars

\* ------------------------------------------------------------------ the recorded scoring loop
\* coreScoringAlgorithm on up to MaxRecorded twists, for every configuration
\* of scales, with and without a LocalPlanEvaluation to fill.
InitRecord ==
  /\ scale \in [CriticIds -> 0..MaxScale]
  /\ prune_plan_ = TRUE
  /\ prune_distance_ = 1
  /\ costmap_half = 1
  /\ global_plan_ = <<NoPose>>
  /\ set_plan = <<NoPose>>
  /\ pc = "scoring"
  /\ op = "computeVelocityCommands"
  /\ pose = ToLocal(NoPose)
  /\ transformed_plan = <<ToLocal(NoPose)>>
  /\ goal_pose = ToLocal(NoPose)
  /\ core = CoreInit
  /\ calls = prepareCalls([i \in CriticIds |-> TRUE])
  /\ cmd_vel = ZeroTwist
  /\ exception = NoException
  /\ goal_reached = FALSE
  /\ transformable = TRUE
  /\ given = <<>>
  /\ scored = <<>>
  /\ results \in {NoResults, NewResults}
  /\ PluginsIdle

\* the pass of the loop for the next twist, of up to MaxRecorded twists
ScoreNextTwistRecorded(out) ==
  /\ pc = "scoring"
  /\ core.twist < MaxRecorded
  /\ core' = coreScoringStep(core, results, out).core
  /\ results' = coreScoringStep(core, results, out).results
  /\ calls' = calls \o
       scoreCalls(core.twist + 1, scoreTrajectory(out, core.best.total).called)
  /\ given' = Append(given, out)
  /\ scored' = Append(scored, scoreTrajectory(out, core.best.total))
  /\ UNCHANGED <<config, transformable, global_plan_, set_plan, pc, op, pose, transformed_plan,
                 goal_pose, cmd_vel, exception, goal_reached>>
  /\ UNCHANGED plugins

NextRecord ==
  \/ \E out \in CriticOutcomes : ScoreNextTwistRecorded(out)
  \/ FinishScoring

SpecRecord == InitRecord /\ [][NextRecord]_vars

\* ------------------------------------------------------------------ the windowing alone
\* prepareGlobalPlan at the start of a cycle, for every configuration, on
\* every stored plan of up to MaxWindowLen poses as setPlan left it.
InitWindow ==
  /\ scale = [i \in CriticIds |-> MaxScale]
  /\ prune_plan_ \in BOOLEAN
  /\ prune_distance_ \in 1..MaxThreshold
  /\ costmap_half \in 1..MaxThreshold
  /\ global_plan_ \in SeqsUpTo(Poses, MaxWindowLen)
  /\ set_plan = global_plan_
  /\ pc = "idle"
  /\ op = "none"
  /\ Locals
  /\ PluginsIdle

NextWindow ==
  \/ \E p \in Poses, tf_ok \in BOOLEAN, record \in BOOLEAN :
       ComputeVelocityCommands(p, tf_ok, record)
  \/ Return

SpecWindow == InitWindow /\ [][NextWindow]_vars

\* ------------------------------------------------------------------ the speed predicate alone
\* isValidSpeed for every configuration of the three thresholds and every
\* twist with components of magnitude up to MaxSpeed
Speeds == (0 - MaxSpeed)..MaxSpeed

InitKinematics ==
  /\ PlannerIdle
  /\ \E a, b, c \in Speeds : kinematics_ = initialize(a, b, c)
  /\ speed = Twist2D(0, 0, 0)
  /\ valid = FALSE
  /\ limits = NoLimits
  /\ IteratorIdle
  /\ GoalCheckersIdle
  /\ GeneratorIdle
  /\ MoreIdle

IsValidSpeed(x, y, theta) ==
  /\ speed' = Twist2D(x, y, theta)
  /\ valid' = isValidSpeed(kinematics_, x, y, theta)
  /\ UNCHANGED <<planner, kinematics_, iter_vars, goal_vars, traj_vars, more_vars>>

NextKinematics == \E x, y, theta \in Speeds : IsValidSpeed(x, y, theta)

SpecKinematics == InitKinematics /\ [][NextKinematics]_vars

\* ------------------------------------------------------------------ the sample space alone
\* One iteration of the velocity sample space, for both policies, over a
\* family of limits, thresholds and current velocities, and for the two
\* configurations of the tests no_limits and no_limits_samples.
Samples == 2..MaxSamples
IterThresholds == {0 - 1} \cup 1..MaxSpeed

IterLimits ==
  {[use_dwa |-> d,
    x |-> Axis(lo, hi, 1, 0 - 1, sx),
    y |-> Axis(0 - 1, 1, 1, 0 - 1, sy),
    theta |-> Axis(0 - t, t, 1, 0 - 1, st)] :
     d \in BOOLEAN, lo \in {0 - 1, 0}, hi \in 1..MaxSpeed, t \in 1..MaxSpeed,
     sx \in Samples, sy \in Samples, st \in Samples}

\* x in [0, 0.55] (unit 0.55/19), y in [-0.1, 0.1] (unit 0.05), theta in
\* [-1, 1] (unit 1/19), samples (20, 5, 20)
NoLimitsTest ==
  [use_dwa |-> FALSE, x |-> Axis(0, 19, 1, 0 - 1, 20), y |-> Axis(0 - 2, 2, 1, 0 - 1, 5),
   theta |-> Axis(0 - 19, 19, 1, 0 - 1, 20)]

\* x in [0, 0.55] (unit 0.55/9), y in [-0.1, 0.1] (unit 0.1), theta in
\* [-1, 1] (unit 0.5), samples (10, 3, 5)
NoLimitsSamplesTest ==
  [use_dwa |-> FALSE, x |-> Axis(0, 9, 1, 0 - 1, 10), y |-> Axis(0 - 1, 1, 1, 0 - 1, 3),
   theta |-> Axis(0 - 2, 2, 1, 0 - 1, 5)]

IterCurrent == {Twist2D(x, 0, th) : x \in {0, 1}, th \in {0 - 1, 0}}

\* TEST(VelocityIterator, dwa_gen) and (nonzero): the default limits under the
\* dynamic-window policy, accelerations taken over one control interval; each
\* axis in the unit that makes its grids whole (x 0.125/95, y 0.00125, theta 0.01/19)
DwaGenTestLimits ==
  [use_dwa |-> TRUE, x |-> Axis(0, 418, 95, 0 - 95, 20),
   y |-> Axis(0 - 80, 80, 100, 0 - 100, 5),
   theta |-> Axis(0 - 1900, 1900, 304, 0 - 304, 20)]

\* the current velocity (0.1, -0.08, 0.05) of TEST(VelocityIterator, nonzero)
NonzeroTestCurrent == Twist2D(76, 0 - 64, 95)

\* the current velocity is within the velocity limits
withinLimits(lim, current) ==
  \A a \in {"x", "y", "theta"} :
    lim[a].min_vel <= current[a] /\ current[a] <= lim[a].max_vel

InitIter ==
  /\ PlannerIdle
  /\ \/ /\ limits \in IterLimits
        /\ \E a \in IterThresholds, b, c \in {0 - 1, 1} : kinematics_ = initialize(b, a, c)
     \/ /\ limits \in {NoLimitsTest, NoLimitsSamplesTest, DwaGenTestLimits,
                       [DwaGenTestLimits EXCEPT !.use_dwa = FALSE]}
        /\ kinematics_ = initialize(0 - 1, 0 - 1, 0 - 1)
  /\ speed = Twist2D(0, 0, 0)
  /\ valid = FALSE
  /\ IteratorIdle
  /\ GoalCheckersIdle
  /\ GeneratorIdle
  /\ MoreIdle

\* startNewIteration(current_velocity)
StartNewIteration(current) ==
  /\ velocity_iterator_ = NoIterator
  /\ \A a \in {"x", "y", "theta"} :
       LET r == axisRange(limits.use_dwa, limits[a], current[a])
       IN gridIsIntegral(r[1], r[2], limits[a].samples)
  /\ velocity_iterator_' = startNewIteration(kinematics_, limits, current)
  /\ n_twists' = 0
  /\ extent' = [NoExtent EXCEPT !.current = current]
  /\ UNCHANGED <<planner, kin_vars, limits, last_twist, goal_vars, traj_vars, more_vars>>

\* nextTwist() while hasMoreTwists()
NextTwist ==
  /\ velocity_iterator_ # NoIterator
  /\ hasMoreTwists(velocity_iterator_)
  /\ last_twist' = getVelocity(velocity_iterator_)
  /\ velocity_iterator_' = iterateToValidVelocity(kinematics_, velocity_iterator_)
  /\ n_twists' = n_twists + 1
  /\ LET t == getVelocity(velocity_iterator_)
     IN extent' = IF n_twists = 0 THEN [extent EXCEPT !.lo = t, !.hi = t]
                  ELSE [extent EXCEPT
                          !.lo = Twist2D(Min(@.x, t.x), Min(@.y, t.y), Min(@.theta, t.theta)),
                          !.hi = Twist2D(Max(@.x, t.x), Max(@.y, t.y), Max(@.theta, t.theta))]
  /\ UNCHANGED <<planner, kin_vars, limits, goal_vars, traj_vars, more_vars>>

NextIter ==
  \/ \E current \in IterCurrent \cup {NonzeroTestCurrent} :
       withinLimits(limits, current) /\ StartNewIteration(current)
  \/ NextTwist

SpecIter == InitIter /\ [][NextIter]_vars

\* ------------------------------------------------------------------ the goal checkers alone
\* Both goal checkers asked the same question, for every configuration of
\* tolerances: the robot at the origin with any heading, the goal on the
\* grid with any heading, any velocity with components in -1..1.
Angles == (0 - HalfTurn)..HalfTurn
Tolerances == 0..MaxTolerance

InitGoal ==
  /\ PlannerIdle
  /\ KinematicsIdle
  /\ limits = NoLimits
  /\ IteratorIdle
  /\ tolerances \in [xy_goal_tolerance : Tolerances, yaw_goal_tolerance : Tolerances,
                      trans_stopped_velocity : Tolerances, rot_stopped_velocity : Tolerances]
  /\ query \in [pose : {Pose2D(0, 0, a) : a \in Angles},
                 goal : {Pose2D(x, y, a) : x \in Coords, y \in Coords, a \in Angles},
                 velocity : {Twist2D(x, y, w) : x \in {0, 1}, y \in {0, 1},
                                                w \in {0 - 1, 0, 1}}]
  /\ answer = NoAnswer
  /\ GeneratorIdle
  /\ MoreIdle

\* isGoalReached of both checkers on the query
IsGoalReachedBoth ==
  /\ ~answer.called
  /\ answer' = [called |-> TRUE,
                 simple |-> simpleIsGoalReached(tolerances, query.pose, query.goal,
                                                query.velocity),
                 stopped |-> stoppedIsGoalReached(tolerances, query.pose, query.goal,
                                                  query.velocity)]
  /\ UNCHANGED <<planner, kin_vars, iter_vars, tolerances, query, traj_vars, more_vars>>

NextGoal == IsGoalReachedBoth

SpecGoal == InitGoal /\ [][NextGoal]_vars

\* ------------------------------------------------------------------ the trajectory generator alone
\* getTimeSteps and generateTrajectory on one request, for a family of
\* parameters, acceleration limits and requests, and for the requests of
\* the tests accel, basic, too_slow and twisty.
TrajLimits ==
  {[use_dwa |-> FALSE, x |-> Axis(0 - MaxSpeed, MaxSpeed, a, 0 - a, 2),
    y |-> Axis(0 - MaxSpeed, MaxSpeed, a, 0 - a, 2),
    theta |-> Axis(0 - MaxSpeed, MaxSpeed, a, 0 - a, 2)] : a \in {1, MaxSpeed}}

Generators ==
  [sim_time : 2..MaxSimTime, discretize_by_time : BOOLEAN, time_granularity : {1, 2},
   linear_granularity : {2, 3}, angular_granularity : {2}, quarter_turn : {1}]

Requests ==
  [start_pose : {Pose2D(0, 0, a) : a \in {0, 1}},
   start_vel : {Twist2D(x, 0, w) : x \in {0 - 1, 0, 1}, w \in {0, 1}},
   cmd_vel : {Twist2D(x, y, w) : x \in Speeds, y \in Speeds, w \in Speeds}]

\* TEST(TrajectoryGenerator, accel): time unit 1 s, velocity unit 0.1 m/s
AccelTestGenerator ==
  [sim_time |-> 5, discretize_by_time |-> TRUE, time_granularity |-> 1,
   linear_granularity |-> 5, angular_granularity |-> 1, quarter_turn |-> 1]
AccelTestLimits ==
  [use_dwa |-> FALSE, x |-> Axis(0, 6, 1, 0 - 25, 20), y |-> Axis(0 - 1, 1, 25, 0 - 25, 5),
   theta |-> Axis(0 - 10, 10, 32, 0 - 32, 20)]
AccelTestRequest ==
  [start_pose |-> Pose2D(0, 0, 0), start_vel |-> Twist2D(0, 0, 0),
   cmd_vel |-> Twist2D(3, 0, 0)]

\* the default parameters of the tests: sim_time 1.7 s in time units of
\* 0.0125 s, velocities in 0.1 m/s and 0.001 rad/s, linear granularity 0.5 m,
\* angular granularity 0.025 rad, the quarter turn in the unit of headings
DefaultTestGenerator ==
  [sim_time |-> 136, discretize_by_time |-> FALSE, time_granularity |-> 2,
   linear_granularity |-> 400, angular_granularity |-> 2000, quarter_turn |-> 125664]
DefaultTestLimits ==
  [use_dwa |-> FALSE, x |-> Axis(0, 6, 1, 0 - 1, 20), y |-> Axis(0 - 1, 1, 1, 0 - 1, 5),
   theta |-> Axis(0 - 1000, 1000, 1, 0 - 1, 20)]
\* TEST(TrajectoryGenerator, basic), too_slow, twisty: start_vel = cmd_vel
SameVelRequest(cmd) ==
  [start_pose |-> Pose2D(0, 0, 0), start_vel |-> cmd, cmd_vel |-> cmd]
BasicTestRequest == SameVelRequest(Twist2D(3, 0, 0))
TooSlowTestRequest == SameVelRequest(Twist2D(2, 0, 0))
TwistyTestRequest == SameVelRequest(Twist2D(3, 0 - 2, 111))

InitTraj ==
  /\ PlannerIdle
  /\ KinematicsIdle
  /\ IteratorIdle
  /\ GoalCheckersIdle
  /\ \/ generator \in Generators /\ limits \in TrajLimits /\ request \in Requests
     \/ /\ generator = AccelTestGenerator /\ limits = AccelTestLimits
        /\ request = AccelTestRequest
     \/ /\ generator = DefaultTestGenerator /\ limits = DefaultTestLimits
        /\ request \in {BasicTestRequest, TooSlowTestRequest, TwistyTestRequest}
  /\ time_steps = NoSteps
  /\ traj = NoTrajectory
  /\ MoreIdle

\* getTimeSteps(cmd_vel)
GetTimeSteps ==
  /\ time_steps = NoSteps
  /\ time_steps' = getTimeSteps(generator, request.cmd_vel)
  /\ UNCHANGED <<planner, kin_vars, iter_vars, goal_vars, generator, request, traj, more_vars>>

\* generateTrajectory(start_pose, start_vel, cmd_vel), when the time step
\* is a whole number of time units and every heading a whole number of
\* quarter turns
GenerateTrajectory ==
  /\ ~traj.done
  /\ LET steps == getTimeSteps(generator, request.cmd_vel)
         t == generateTrajectory(generator, limits, request.start_pose,
                                 request.start_vel, request.cmd_vel)
     IN /\ steps.sim_time % steps.size = 0
        /\ \A k \in 1..Len(t.poses) : t.poses[k].theta % generator.quarter_turn = 0
        /\ traj' = t
  /\ UNCHANGED <<planner, kin_vars, iter_vars, goal_vars, generator, request, time_steps, more_vars>>

NextTraj == GetTimeSteps \/ GenerateTrajectory

SpecTraj == InitTraj /\ [][NextTraj]_vars

\* ------------------------------------------------------------------ reference notions
Last(s) == s[Len(s)]

IsSuffix(s, t) ==
  /\ Len(s) <= Len(t)
  /\ s = SubSeq(t, Len(t) - Len(s) + 1, Len(t))

InCycle == op = "computeVelocityCommands"
CycleOver == InCycle /\ pc \in {"returned", "threw"}

\* a candidate is legal when no critic that scores it (scale # 0) rejects it
IsLegal(out) == \A i \in CriticIds : scale[i] # 0 => ~out[i].illegal

RECURSIVE WeightedSum(_, _)
WeightedSum(out, i) ==
  IF i = 0 THEN 0
  ELSE WeightedSum(out, i - 1) + (IF scale[i] = 0 THEN 0 ELSE out[i].raw * scale[i])

\* the full weighted total of a legal candidate
FullTotal(out) == WeightedSum(out, Len(critics_))

LegalTwists == {k \in 1..Len(given) : IsLegal(given[k])}

\* the locals of coreScoringAlgorithm after the first k twists when every
\* trajectory is scored with early exit disabled (best_score = -1)
RECURSIVE FullyScored(_)
FullyScored(k) ==
  IF k = 0 THEN CoreInit ELSE coreStepWith(FullyScored(k - 1), given[k], 0 - 1)

\* scoreTrajectory left its loop before a critic with a scale had scored
StoppedEarly(k) ==
  /\ scored[k].illegal = 0
  /\ \E i \in CriticIds :
       scale[i] # 0 /\ \A j \in 1..Len(scored[k].called) : scored[k].called[j] # i

\* the least element of a non-empty set of indices
First(S) == CHOOSE i \in S : \A j \in S : i <= j

\* the indices of the poses of plan closer to / farther from robot_pose than
\* a squared threshold
Closer(plan, robot_pose, sq) ==
  {i \in 1..Len(plan) : getSquareDistance(robot_pose, plan[i]) < sq}
Farther(plan, robot_pose, sq) ==
  {i \in 1..Len(plan) : getSquareDistance(robot_pose, plan[i]) > sq}

\* hypot(x, y) > m and hypot(x, y) < m for an integer m, on the real numbers
HypotAbove(x, y, m) == m < 0 \/ x * x + y * y > m * m
HypotBelow(x, y, m) == m > 0 /\ x * x + y * y < m * m

\* the three ways a twist fails isValidSpeed
InvalidByCases(k, v) ==
  \/ k.max_speed_xy_ >= 0 /\ HypotAbove(v.x, v.y, k.max_speed_xy_)
  \/ /\ k.min_speed_xy_ >= 0 /\ HypotBelow(v.x, v.y, k.min_speed_xy_)
     /\ k.min_speed_theta_ >= 0 /\ fabs(v.theta) < k.min_speed_theta_
  \/ v = Twist2D(0, 0, 0)

IterationOver == velocity_iterator_ # NoIterator /\ ~hasMoreTwists(velocity_iterator_)

NoThresholds ==
  /\ kinematics_.max_speed_xy_ < 0
  /\ kinematics_.min_speed_xy_ < 0
  /\ kinematics_.min_speed_theta_ < 0

\* the evenly spaced grid of an axis under the static-limits policy has all
\* its samples / has a sample at 0
StaticGrid(a) == evenGrid(a.min_vel, a.max_vel, a.samples)
GridIsFull(a) == Len(StaticGrid(a)) = a.samples
GridHasZero(a) == \E k \in 1..Len(StaticGrid(a)) : StaticGrid(a)[k] = 0

\* the position of the query is within the xy tolerance; its headings
\* differ, up to whole turns, by no more than the yaw tolerance
PositionWithin ==
  ~HypotAbove(query.pose.x - query.goal.x, query.pose.y - query.goal.y,
              tolerances.xy_goal_tolerance)
HeadingWithin ==
  \E n \in {0 - 1, 0, 1} :
    fabs(query.goal.theta - query.pose.theta + n * 2 * HalfTurn)
      <= tolerances.yaw_goal_tolerance
Stopped ==
  /\ ~HypotAbove(query.velocity.x, query.velocity.y, tolerances.trans_stopped_velocity)
  /\ fabs(query.velocity.theta) <= tolerances.rot_stopped_velocity

\* v brought into lo..hi
Clip(v, lo, hi) == IF v < lo THEN lo ELSE IF v > hi THEN hi ELSE v

\* n equal steps keep the step of the request's command within the linear
\* and the angular granularity
StepsFit(n) ==
  LET cmd == request.cmd_vel
      g == generator
  IN /\ (cmd.x * cmd.x + cmd.y * cmd.y) * g.sim_time * g.sim_time
          <= g.linear_granularity * g.linear_granularity * n * n
     /\ fabs(cmd.theta) * g.sim_time <= g.angular_granularity * n
FewestSteps(n) == n >= 1 /\ StepsFit(n) /\ \A m \in 1..(n - 1) : ~StepsFit(m)

\* the locals of coreScoringAlgorithm and the calls of its critics after the
\* first k twists of the cycle when results is the null pointer
RECURSIVE UnrecordedLoop(_)
UnrecordedLoop(k) ==
  IF k = 0 THEN CoreInit
  ELSE coreScoringStep(UnrecordedLoop(k - 1), NoResults, given[k]).core
RECURSIVE UnrecordedCalls(_)
UnrecordedCalls(k) ==
  IF k = 0 THEN <<>>
  ELSE UnrecordedCalls(k - 1) \o
         scoreCalls(k, scoreTrajectory(given[k], UnrecordedLoop(k - 1).best.total).called)

\* the critics that score: those of non-zero scale
Weighted == {i \in CriticIds : scale[i] # 0}

\* the calls made on the critics after the prepare loop
CallsAfterPrepare == SubSeq(calls, Len(critics_) + 1, Len(calls))

\* the entries of results->twists that best_index and worst_index name
RecordedBest == results.twists[results.best_index + 1]
RecordedWorst == results.twists[results.worst_index + 1]

\* the step is a windowing that succeeded / a call of computeVelocityCommands
WindowingSucceeds == pc = "idle" /\ op' = "computeVelocityCommands" /\ pc' = "prepare"
CycleStarts == pc = "idle" /\ op' = "computeVelocityCommands"

CallsNamed(name) == SelectSeq(calls, LAMBDA e : e.call = name)
Prepared == Len(CallsNamed("prepare")) > 0

\* ------------------------------------------------------------------ claims
\* C1: when coreScoringAlgorithm returns, the returned trajectory is a legal
\* candidate, its total is the minimum of the full weighted totals of the
\* legal candidates of the cycle, and it is the first candidate with that
\* total in sample order.
C1_BestIsFirstMinimum ==
  (InCycle /\ pc = "returned" /\ Len(given) = core.twist) =>
    /\ cmd_vel \in LegalTwists
    /\ core.best.twist = cmd_vel
    /\ core.best.total = FullTotal(given[cmd_vel])
    /\ \A k \in LegalTwists :
         /\ FullTotal(given[k]) >= core.best.total
         /\ FullTotal(given[k]) = core.best.total => k >= cmd_vel

\* two legal candidates with the same positive total: the first was returned
C1_Witness ==
  /\ InCycle /\ pc = "returned"
  /\ Len(given) = 2
  /\ LegalTwists = {1, 2}
  /\ FullTotal(given[1]) = FullTotal(given[2])
  /\ FullTotal(given[1]) > 0
  /\ cmd_vel = 1

C3_FailsIffNoLegal ==
  (CycleOver /\ Len(scored) = core.twist) =>
    LET legal == {k \in 1..Len(scored) : scored[k].illegal = 0}
    IN /\ (pc = "threw") = (legal = {})
       /\ (pc = "threw") = (exception = "NoLegalTrajectoriesException")
       /\ legal # {} => cmd_vel \in legal

\* a cycle that failed after every one of two candidates was rejected
C3_Witness ==
  /\ CycleOver
  /\ pc = "threw"
  /\ Len(scored) = 2
  /\ \A k \in 1..2 : scored[k].illegal # 0

\* C4: every twist yielded so far was scored exactly once, in sample order,
\* and accounted for as legal or as rejected by the critic that threw; a
\* rejection leaves the loop running, no exception leaves it before the
\* sample space is exhausted.
C4_EveryTwistScoredOnce ==
  (InCycle /\ pc \in {"scoring", "returned", "threw"} /\ Len(given) = core.twist) =>
    /\ Len(scored) = core.twist
    /\ core.legal_count = Cardinality({k \in 1..Len(scored) : scored[k].illegal = 0})
    /\ \A i \in CriticIds :
         core.illegal_count[i] = Cardinality({k \in 1..Len(scored) : scored[k].illegal = i})
    /\ \A k \in 1..Len(scored) :
         scoreCalls(k, scored[k].called) =
           SelectSeq(calls, LAMBDA e : e.call = "score" /\ e.twist = k)
    /\ \A a, b \in 1..Len(calls) :
         (a < b /\ calls[a].call = "score" /\ calls[b].call = "score")
           => calls[a].twist <= calls[b].twist
    /\ pc = "scoring" => exception = NoException

\* the loop went on after a rejected twist and scored the next one
C4_Witness ==
  /\ InCycle /\ pc = "scoring"
  /\ Len(scored) = 2
  /\ scored[1].illegal # 0
  /\ scored[2].illegal = 0

\* C5: in a cycle in which the critics were prepared, no critic is debriefed
\* while twists are scored, and when the cycle is over every critic was
\* debriefed exactly once, after all scoring: with the chosen twist when the
\* cycle returns, with the zero twist when it fails.
C5_DebriefOnce ==
  (InCycle /\ Prepared) =>
    /\ pc \in {"prepare", "scoring"} => CallsNamed("debrief") = <<>>
    /\ pc \in {"returned", "threw"} =>
         /\ CallsNamed("debrief") =
              debriefCalls(IF pc = "returned" THEN cmd_vel ELSE ZeroTwist)
         /\ SubSeq(calls, Len(calls) - Len(critics_) + 1, Len(calls)) =
              CallsNamed("debrief")
         /\ pc = "returned" => cmd_vel = core.best.twist /\ cmd_vel >= 1
         /\ pc = "threw" => core.legal_count = 0

\* a cycle that failed after scoring twists, its critics debriefed
C5_Witness ==
  /\ InCycle /\ Prepared
  /\ pc = "threw"
  /\ core.twist = 2
  /\ Len(CallsNamed("debrief")) = Len(critics_)

\* C6: in a cycle, prepare is called exactly once on every critic, in order,
\* after the local path and the local goal were obtained and before any
\* trajectory is scored; whatever prepare returns, the cycle goes on to
\* score and ends returning a twist or failing for want of a legal one.
C6_PrepareOnce ==
  InCycle =>
    /\ pc = "prepare" => calls = <<>> /\ transformed_plan # <<>>
    /\ (pc = "scoring" \/ (pc \in {"returned", "threw"} /\ Prepared)) =>
         /\ transformed_plan # <<>>
         /\ goal_pose = ToLocal(Last(global_plan_))
         /\ Len(calls) >= Len(critics_)
         /\ \A i \in CriticIds : calls[i].call = "prepare" /\ calls[i].critic = i
         /\ Len(CallsNamed("prepare")) = Len(critics_)
         /\ exception \in {NoException, "NoLegalTrajectoriesException"}

\* a critic failed to prepare, a twist was scored all the same and returned
C6_Witness ==
  /\ InCycle /\ pc = "returned"
  /\ \E i \in CriticIds : calls[i].call = "prepare" /\ ~calls[i].ok
  /\ Len(CallsNamed("score")) > 0
  /\ cmd_vel >= 1

\* C7: setPlan calls reset on every critic (and nothing else), and when it
\* returns the stored global plan is the path it was given.
C7_SetPlanResetsAndStores ==
  (op = "setPlan" /\ pc = "returned") =>
    /\ calls = resetCalls
    /\ global_plan_ = set_plan

\* setPlan returned with a path of two poses
C7_Witness ==
  /\ op = "setPlan" /\ pc = "returned"
  /\ Len(global_plan_) = 2
  /\ Len(calls) = Len(critics_)

\* C8: after every step the stored global plan is a suffix of the path given
\* to the last setPlan, it is that path when pruning is disabled, and unless
\* the step is a setPlan it is a suffix of what was stored before the step
\* (a pruned pose does not come back).
C8_StoredPlanIsSuffix ==
  [][/\ IsSuffix(global_plan_', set_plan')
     /\ ~prune_plan_' => global_plan_' = set_plan'
     /\ op' # "setPlan" => IsSuffix(global_plan_', global_plan_)]_vars

\* a cycle returned a twist after pruning the first pose of the plan
C8_Witness ==
  /\ InCycle /\ pc = "returned"
  /\ prune_plan_
  /\ Len(set_plan) = 2
  /\ Len(global_plan_) = 1

\* C9: pruning never empties a non-empty stored path nor removes its final
\* (goal) pose, also when no pose lies within the threshold.
C9_PruneKeepsGoal ==
  Len(set_plan) > 0 =>
    /\ Len(global_plan_) > 0
    /\ Last(global_plan_) = Last(set_plan)

\* C10: in a cycle whose windowing succeeded, the local goal is the last
\* pose of the stored global plan as pruned by that cycle, in the costmap's
\* frame, which is the last pose of the path given to the last setPlan.
C10_GoalIsLastOfPlan ==
  (InCycle /\ (pc \in {"prepare", "scoring"} \/ (CycleOver /\ Prepared))) =>
    /\ Len(global_plan_) > 0
    /\ goal_pose = ToLocal(Last(global_plan_))
    /\ goal_pose = ToLocal(Last(set_plan))

\* the local window ends before the goal
C10_Witness ==
  /\ InCycle /\ pc = "scoring"
  /\ goal_pose # Last(transformed_plan)
  /\ goal_pose = ToLocal(Last(global_plan_))

\* C11: when the windowing of a cycle succeeds, the local path is the run of
\* poses of the stored plan from the catch-up point (the first pose closer
\* to the robot than the start threshold) up to, not including, the horizon
\* point (the first later pose farther than the end threshold), in order
\* and in the costmap's frame; it is not empty and none of its poses is
\* farther from the robot than the end threshold.
C11_WindowIsCatchUpToHorizon ==
  [][WindowingSucceeds =>
       LET robot_pose == ToPlanFrame(pose')
           near == Closer(global_plan_, robot_pose, sq_transform_start_threshold)
       IN /\ near # {}
          /\ LET b == First(near)
                 far == {j \in Farther(global_plan_, robot_pose,
                                       sq_transform_end_threshold) : j > b}
                 e == IF far = {} THEN Len(global_plan_) + 1 ELSE First(far)
             IN /\ transformed_plan' = [i \in 1..(e - b) |-> ToLocal(global_plan_[b + i - 1])]
                /\ Len(transformed_plan') > 0
                /\ \A i \in b..(e - 1) :
                     getSquareDistance(robot_pose, global_plan_[i])
                       <= sq_transform_end_threshold]_vars

\* the window is the middle pose of a plan of three: the first pose is
\* behind the catch-up point, the last is the horizon point
C11_Witness ==
  /\ InCycle /\ pc = "prepare"
  /\ ~prune_plan_
  /\ Len(global_plan_) = 3
  /\ transformed_plan = <<ToLocal(global_plan_[2])>>

\* C12: a computeVelocityCommands that starts on an empty stored plan, or
\* with a pose tf cannot transform into the plan's frame, fails at once: no
\* critic is prepared, no trajectory is scored, and the stored plan is what
\* it was before the call.
C12_FailsBeforePrepare ==
  [][(CycleStarts /\ (Len(global_plan_) = 0 \/ ~transformable')) =>
       /\ pc' = "threw"
       /\ exception' = (IF Len(global_plan_) = 0 THEN "PlannerException"
                        ELSE "PlannerTFException")
       /\ calls' = <<>>
       /\ core' = CoreInit
       /\ transformed_plan' = <<>>
       /\ global_plan_' = global_plan_]_vars

\* a cycle on a plan of two poses failed for want of a transform
C12_Witness ==
  /\ InCycle /\ pc = "threw"
  /\ ~transformable
  /\ Len(global_plan_) = 2
  /\ calls = <<>>

C14_YieldedTwistsAreValid ==
  n_twists > 0 =>
    /\ ~InvalidByCases(kinematics_, last_twist)
    /\ last_twist # Twist2D(0, 0, 0)
    /\ kinematics_.max_speed_xy_ >= 0 =>
         last_twist.x * last_twist.x + last_twist.y * last_twist.y
           <= kinematics_.max_speed_xy_ * kinematics_.max_speed_xy_

\* a dynamic-window iteration is over and left out more than one sample
C14_Witness ==
  /\ IterationOver
  /\ limits.use_dwa
  /\ n_twists > 0
  /\ n_twists + 1 < Len(velocity_iterator_.xs) * Len(velocity_iterator_.ys)
                      * Len(velocity_iterator_.ths)

\* C15 as stated: static limits, no thresholds: whatever the sample counts,
\* the iteration yields Sx*Sy*St + Sx*Sy - 1 twists.
C15_CountForAllSamples ==
  (IterationOver /\ ~limits.use_dwa /\ NoThresholds) =>
    n_twists = limits.x.samples * limits.y.samples * limits.theta.samples
                 + limits.x.samples * limits.y.samples - 1

\* C15 amended: static limits, no thresholds, the x and y grids have all
\* their samples and one at 0, the theta grid has all its samples and none
\* at 0: the iteration yields Sx*Sy*St + Sx*Sy - 1 twists, 2099 for the
\* samples (20, 5, 20) of the test no_limits.
C15_CountWhenThetaGridLacksZero ==
  (IterationOver /\ ~limits.use_dwa /\ NoThresholds) =>
    /\ ( /\ GridIsFull(limits.x) /\ GridHasZero(limits.x)
         /\ GridIsFull(limits.y) /\ GridHasZero(limits.y)
         /\ GridIsFull(limits.theta) /\ ~GridHasZero(limits.theta) ) =>
         n_twists = limits.x.samples * limits.y.samples * limits.theta.samples
                      + limits.x.samples * limits.y.samples - 1
    /\ limits = NoLimitsTest => n_twists = 2099

\* the iteration of the test no_limits is over
C15_Witness ==
  /\ IterationOver
  /\ limits = NoLimitsTest
  /\ n_twists = 20 * 5 * 20 + 20 * 5 - 1

\* C16: static limits, no thresholds, every grid has all its samples and
\* one at 0: no sample is added and the iteration yields Sx*Sy*St - 1
\* twists, 149 for x in [0, 0.55], y in [-0.1, 0.1], theta in [-1, 1] with
\* samples (10, 3, 5).
C16_CountWhenGridsHaveZero ==
  (IterationOver /\ ~limits.use_dwa /\ NoThresholds) =>
    /\ ( /\ GridIsFull(limits.x) /\ GridHasZero(limits.x)
         /\ GridIsFull(limits.y) /\ GridHasZero(limits.y)
         /\ GridIsFull(limits.theta) /\ GridHasZero(limits.theta) ) =>
         /\ Len(velocity_iterator_.ths) = limits.theta.samples
         /\ n_twists = limits.x.samples * limits.y.samples * limits.theta.samples - 1
    /\ limits = NoLimitsSamplesTest => n_twists = 149

\* the iteration of the test no_limits_samples is over
C16_Witness ==
  /\ IterationOver
  /\ limits = NoLimitsSamplesTest
  /\ n_twists = 10 * 3 * 5 - 1

\* C17: the proximity checker answers true exactly when the position
\* distance is <= the xy tolerance and the heading difference, taken up to
\* whole turns, is <= the yaw tolerance in magnitude, whatever the velocity;
\* a distance equal to the tolerance is accepted, the headings pi and -pi
\* differ by zero.
C17_SimpleGoalChecker ==
  answer.called =>
    /\ answer.simple = (PositionWithin /\ HeadingWithin)
    /\ ( /\ query.pose.theta = HalfTurn /\ query.goal.theta = 0 - HalfTurn
         /\ PositionWithin ) => answer.simple

\* accepted at a distance equal to a positive tolerance, with headings pi
\* and -pi, yaw tolerance zero and the robot moving
C17_Witness ==
  /\ answer.called /\ answer.simple
  /\ tolerances.xy_goal_tolerance = 1
  /\ tolerances.yaw_goal_tolerance = 0
  /\ getSquareDistance(<<query.pose.x, query.pose.y>>, <<query.goal.x, query.goal.y>>) = 1
  /\ query.pose.theta = HalfTurn /\ query.goal.theta = 0 - HalfTurn
  /\ query.velocity # Twist2D(0, 0, 0)

\* C18: the stopped checker answers true exactly when the proximity checker
\* does and hypot(vx, vy) <= the stopped-speed tolerance and |vtheta| <= the
\* stopped-angular tolerance; it never accepts what the proximity checker
\* rejects, and the two agree at zero velocity.
C18_StoppedRefinesSimple ==
  answer.called =>
    /\ answer.stopped = (answer.simple /\ Stopped)
    /\ answer.stopped => (PositionWithin /\ HeadingWithin)
    /\ query.velocity = Twist2D(0, 0, 0) => answer.stopped = answer.simple

\* the proximity checker accepts a moving robot, the stopped checker does not
C18_Witness ==
  /\ answer.called
  /\ answer.simple /\ ~answer.stopped
  /\ query.velocity.theta # 0

\* C19: in a generated trajectory the velocity of step k is, on every axis,
\* the command clipped to [v(k-1) + decel*dt, v(k-1) + acc*dt], v(0) the
\* start velocity, and the pose after step k is the pose before it advanced
\* by that velocity for dt; from rest, commanded 0.3 with acc_lim_x 0.1 and
\* steps of 1 s, the x positions are 0, 0.1, 0.3, 0.6, 0.9.
C19_VelocityClippedPerStep ==
  traj.done =>
    LET n == Len(traj.vels)
        dt == generator.sim_time \div n
        before(k) == IF k = 1 THEN request.start_vel ELSE traj.vels[k - 1]
    IN /\ n >= 1
       /\ Len(traj.poses) = n + 1
       /\ traj.poses[1] = request.start_pose
       /\ \A k \in 1..n :
            LET v == traj.vels[k]
                p == traj.poses[k]
                np == traj.poses[k + 1]
            IN /\ \A a \in {"x", "y", "theta"} :
                    v[a] = Clip(request.cmd_vel[a], before(k)[a] + limits[a].decel_lim * dt,
                                before(k)[a] + limits[a].acc_lim * dt)
               /\ np.theta = p.theta + v.theta * dt
               /\ (np.x - p.x) * (np.x - p.x) + (np.y - p.y) * (np.y - p.y)
                    = (v.x * v.x + v.y * v.y) * dt * dt
               /\ p.theta % (4 * generator.quarter_turn) = 0 =>
                    np.x = p.x + v.x * dt /\ np.y = p.y + v.y * dt
       /\ request = AccelTestRequest /\ generator = AccelTestGenerator
            /\ limits = AccelTestLimits =>
              [k \in 1..5 |-> traj.poses[k].x] = <<0, 1, 3, 6, 9>>

\* the trajectory of the test accel
C19_Witness ==
  /\ traj.done
  /\ generator = AccelTestGenerator /\ request = AccelTestRequest
  /\ Len(traj.poses) = 6
  /\ traj.poses[5].x = 9
  /\ traj.vels[1].x < request.cmd_vel.x

\* C20: not discretizing by time, getTimeSteps returns N equal steps, N the
\* smallest positive integer that keeps the linear and the angular step
\* within their granularities; the trajectory lasts sim_time and has N + 1
\* poses, the first the start pose: 3 poses for vx = 0.3, 2 for vx = 0.2,
\* N = 8 for (0.3, -0.2, 0.111).
C20_FewestStepsWithinGranularity ==
  ~generator.discretize_by_time =>
    /\ time_steps # NoSteps =>
         /\ FewestSteps(time_steps.size)
         /\ time_steps.sim_time = generator.sim_time
         /\ (generator = DefaultTestGenerator /\ request = TwistyTestRequest) =>
              time_steps.size + 1 = 9
    /\ traj.done =>
         /\ FewestSteps(Len(traj.poses) - 1)
         /\ traj.poses[1] = request.start_pose
         /\ traj.duration = generator.sim_time
         /\ (generator = DefaultTestGenerator /\ request = BasicTestRequest) =>
              Len(traj.poses) = 3
         /\ (generator = DefaultTestGenerator /\ request = TooSlowTestRequest) =>
              Len(traj.poses) = 2

\* the trajectory of the test basic
C20_Witness ==
  /\ traj.done
  /\ generator = DefaultTestGenerator /\ request = BasicTestRequest
  /\ Len(traj.poses) = 3
  /\ traj.duration = 136

\* C22: recording diagnostics does not affect the decision: a cycle with a
\* results object to fill goes as the cycle on the same plan, pose and
\* critic outcomes goes with a null results pointer: the same stored plan,
\* the same locals of the scoring loop, the same critic calls in the same
\* order, the same twist returned or the same exception thrown.
C22_RecordingDoesNotAffectDecision ==
  InCycle =>
    LET w == prepareGlobalPlan(set_plan, pose, transformable)
        n == Len(given)
        f == finishCycle(UnrecordedLoop(n))
    IN /\ global_plan_ = w.plan
       /\ (pc = "threw" /\ ~Prepared) => exception = w.exception /\ calls = <<>>
       /\ pc = "prepare" => w.exception = NoException /\ calls = <<>>
       /\ pc = "scoring" =>
            /\ core = UnrecordedLoop(n)
            /\ CallsAfterPrepare = UnrecordedCalls(n)
       /\ (CycleOver /\ Prepared) =>
            /\ core = UnrecordedLoop(n)
            /\ exception = f.exception
            /\ cmd_vel = f.cmd_vel
            /\ CallsAfterPrepare = UnrecordedCalls(n) \o f.debrief

\* a recorded cycle in which the second twist replaced the first as best
C22_Witness ==
  /\ InCycle /\ pc = "returned"
  /\ results.present
  /\ Len(results.twists) = 2
  /\ results.best_index = 1
  /\ cmd_vel = 2
  /\ Len(global_plan_) < Len(set_plan)

\* C28: when diagnostics are recorded, after a successful cycle worst_index
\* names a legal candidate whose full weighted total is the maximum over the
\* legal candidates of the cycle, and best_index names the candidate
\* returned as best.
C28_WorstIndexIsMaxFullTotal ==
  (InCycle /\ pc = "returned" /\ results.present) =>
    /\ RecordedWorst.twist \in LegalTwists
    /\ \A k \in LegalTwists : FullTotal(given[k]) <= FullTotal(given[RecordedWorst.twist])
    /\ RecordedBest.twist = cmd_vel

\* C28 (amended): when diagnostics are recorded, after a successful cycle
\* worst_index names a candidate that was not rejected and whose recorded
\* total (its full weighted total, or the partial total at which its scoring
\* stopped early) is the maximum of the recorded totals of the candidates
\* not rejected, the first such in sample order; best_index names the
\* candidate returned as best.
C28_WorstIndexIsMaxRecordedTotal ==
  (InCycle /\ pc = "returned" /\ results.present) =>
    LET kept == {k \in 1..Len(scored) : scored[k].illegal = 0}
        w == RecordedWorst.twist
    IN /\ Len(results.twists) = Len(scored)
       /\ w \in kept
       /\ RecordedWorst.total = scored[w].total
       /\ \A k \in kept :
            /\ scored[k].total <= scored[w].total
            /\ scored[k].total = scored[w].total => k >= w
            /\ ~StoppedEarly(k) => scored[k].total = FullTotal(given[k])
       /\ RecordedBest.twist = cmd_vel

\* three legal candidates of full totals 1, 2 and 4: the scoring of the
\* second and of the third stopped at the total 2, worst_index names the second
C28_Witness ==
  /\ InCycle /\ pc = "returned" /\ results.present
  /\ LegalTwists = {1, 2, 3}
  /\ FullTotal(given[1]) = 1 /\ FullTotal(given[2]) = 2 /\ FullTotal(given[3]) = 4
  /\ StoppedEarly(3)
  /\ results.worst_index = 1
  /\ results.best_index = 0

\* C23: isGoalReached returns false whenever the stored global path is
\* empty (no plan set, or emptied by pruning); otherwise it returns the goal
\* checker's verdict for the pose of the call against the last pose of the
\* stored path; the call never changes the stored path.
C23_IsGoalReachedOnStoredPath ==
  [][(pc = "idle" /\ op' = "isGoalReached") =>
       /\ global_plan_' = global_plan_
       /\ Len(global_plan_) = 0 => ~goal_reached'
       /\ Len(global_plan_) > 0 =>
            goal_reached' = goalCheck(pose', ToLocal(Last(global_plan_)))]_vars

\* asked at the goal of a plan that pruning has emptied: false
C23_Witness ==
  /\ op = "isGoalReached" /\ pc = "returned"
  /\ global_plan_ = <<>>
  /\ set_plan # <<>>
  /\ pose = ToLocal(Last(set_plan))
  /\ ~goal_reached

\* C24: scoreTrajectory never calls the score function of a critic of scale
\* 0: such a critic adds nothing to the total and cannot disqualify a
\* trajectory (whatever it would have returned, the score is the same), so
\* every rejection of a cycle names a critic of non-zero scale; when the
\* only critic of non-zero scale rejects every trajectory, the cycle fails
\* with NoLegalTrajectoriesException and every rejection names that critic.
C24_ZeroWeightCriticsNeverScored ==
  (InCycle /\ Len(given) = core.twist) =>
    /\ \A j \in 1..Len(calls) : calls[j].call = "score" => calls[j].critic \in Weighted
    /\ \A k \in 1..Len(scored) :
         /\ \A j \in 1..Len(scored[k].called) : scored[k].called[j] \in Weighted
         /\ scored[k].illegal # 0 => scored[k].illegal \in Weighted
         /\ \A i \in CriticIds \ Weighted, o \in Outcomes :
              scoreTrajectory([given[k] EXCEPT ![i] = o],
                              UnrecordedLoop(k - 1).best.total) = scored[k]
    /\ \A i \in CriticIds : core.illegal_count[i] > 0 => i \in Weighted
    /\ \A i \in CriticIds :
         (CycleOver /\ Weighted = {i} /\ \A k \in 1..Len(given) : given[k][i].illegal) =>
           /\ exception = "NoLegalTrajectoriesException"
           /\ core.legal_count = 0
           /\ core.illegal_count = [j \in CriticIds |-> IF j = i THEN Len(given) ELSE 0]

\* the first critic has scale 0 and would score one trajectory and reject
\* the other, the second critic rejects both: the cycle fails, both
\* rejections name the second critic
C24_Witness ==
  /\ InCycle /\ pc = "threw"
  /\ Weighted = {2}
  /\ Len(given) = 2
  /\ given[1][1].raw > 0 /\ given[2][1].illegal
  /\ given[1][2].illegal /\ given[2][2].illegal
  /\ exception = "NoLegalTrajectoriesException"
  /\ core.illegal_count = [j \in CriticIds |-> IF j = 2 THEN 2 ELSE 0]

\* C27: pruning enabled or not, the windowing of a cycle succeeds with a
\* non-empty local path whenever a pose of the stored plan lies strictly
\* within min(costmap half extent, prune distance) of the robot; it fails
\* with the empty-result error only when no stored pose is that close.
C27_SucceedsWhenAPoseIsNear ==
  [][(CycleStarts /\ Len(global_plan_) > 0 /\ transformable'
        /\ Closer(global_plan_, ToPlanFrame(pose'),
                  Min(sq_dist_threshold, sq_prune_dist)) # {}) =>
       /\ pc' = "prepare"
       /\ exception' = NoException
       /\ Len(transformed_plan') > 0]_vars

\* ---- initialization of the trajectory generators: the deprecated use_dwa ----

GeneratorClasses == {"StandardTrajectoryGenerator", "LimitedAccelGenerator"}

\* use_dwa on the node: never set, or set to true or to false
UseDwaSettings == {"unset", "true", "false"}

ParameterSets ==
  [use_dwa : UseDwaSettings, sim_time : 2..MaxSimTime, discretize_by_time : BOOLEAN,
   time_granularity : {1, 2}, linear_granularity : {2, 3}, angular_granularity : {2},
   quarter_turn : {1}]

\* a check that accepts every setting
checkUseDwaParamAcceptsAll(class, use_dwa) == FALSE

\* checkUseDwaParam(nh) of the class: TRUE when it throws PlannerException
checkUseDwaParam(class, use_dwa) ==
  IF class = "StandardTrajectoryGenerator" THEN use_dwa = "true" ELSE use_dwa = "false"

\* the generator parameters initialize reads from the node
loadParameters(p) ==
  [sim_time |-> p.sim_time, discretize_by_time |-> p.discretize_by_time,
   time_granularity |-> p.time_granularity, linear_granularity |-> p.linear_granularity,
   angular_granularity |-> p.angular_granularity, quarter_turn |-> p.quarter_turn]

InitSetup ==
  /\ PlannerIdle
  /\ KinematicsIdle
  /\ limits = NoLimits
  /\ IteratorIdle
  /\ GoalCheckersIdle
  /\ GeneratorIdle
  /\ parameters \in ParameterSets
  /\ gen_class = "none"
  /\ init_outcome = "none"
  /\ ComponentsIdle

\* initialize(nh) of a generator of the class
Initialize(class) ==
  /\ init_outcome = "none"
  /\ gen_class' = class
  /\ IF checkUseDwaParam(class, parameters.use_dwa)
     THEN /\ init_outcome' = "PlannerException"
          /\ UNCHANGED <<generator, limits>>
     ELSE /\ init_outcome' = "initialized"
          /\ generator' = loadParameters(parameters)
          /\ limits' = [limits EXCEPT !.use_dwa = (class = "LimitedAccelGenerator")]
  /\ UNCHANGED <<planner, kin_vars, velocity_iterator_, last_twist, n_twists, extent,
                 goal_vars, request, time_steps, traj, parameters, component_vars>>

NextSetup == \E class \in GeneratorClasses : Initialize(class)

SpecSetup == InitSetup /\ [][NextSetup]_vars

\* C21: initialize of StandardTrajectoryGenerator ends in PlannerException exactly
\* when use_dwa is set to true, initialize of LimitedAccelGenerator exactly when
\* use_dwa is set to false; in every other case (use_dwa unset, or set to the value
\* matching the class) the generator is initialized from the node's parameters and
\* uses the policy of its class.
C21_ContradictoryUseDwaRejected ==
  init_outcome # "none" =>
    /\ init_outcome = "PlannerException" <=>
         \/ gen_class = "StandardTrajectoryGenerator" /\ parameters.use_dwa = "true"
         \/ gen_class = "LimitedAccelGenerator" /\ parameters.use_dwa = "false"
    /\ init_outcome # "PlannerException" =>
         /\ init_outcome = "initialized"
         /\ generator = loadParameters(parameters)
         /\ limits.use_dwa = (gen_class = "LimitedAccelGenerator")

C21_Witness ==
  /\ init_outcome = "PlannerException"
  /\ gen_class = "LimitedAccelGenerator"
  /\ parameters.use_dwa = "false"

\* ---- OdomSubscriber: the odometry callback against the getters ----

InitOdom ==
  /\ PlannerIdle
  /\ KinematicsIdle
  /\ limits = NoLimits
  /\ IteratorIdle
  /\ GoalCheckersIdle
  /\ GeneratorIdle
  /\ SetupIdle
  /\ InflationIdle
  /\ BackUpIdle
  /\ \E threshold \in {0, 1} : odom = OdomSubscriber(threshold, threshold, threshold)
  /\ threads = NoThreads
  /\ odom_log = NoOdomLog

OdomOthers == <<planner, kin_vars, iter_vars, goal_vars, traj_vars, setup_vars, infl_vars, backup_vars>>

\* the subscription thread is handed the next message and enters odomCallback
OdomCallback(v) ==
  /\ threads.callback.pc = "idle"
  /\ Cardinality(odom_log.received) < MaxMessages
  /\ LET msg == Odometry(Cardinality(odom_log.received) + 1, v.x, v.y, v.theta)
     IN /\ threads' = [threads EXCEPT !.callback = [pc |-> "lock", msg |-> msg]]
        /\ odom_log' = [odom_log EXCEPT !.received = @ \cup {msg}]
  /\ UNCHANGED <<OdomOthers, odom>>

\* std::lock_guard<std::mutex> lock(odom_mutex_)
CallbackLock ==
  /\ threads.callback.pc = "lock"
  /\ odom.odom_mutex_ = "free"
  /\ odom' = [odom EXCEPT !.odom_mutex_ = "callback"]
  /\ threads' = [threads EXCEPT !.callback.pc = "header"]
  /\ UNCHANGED <<OdomOthers, odom_log>>

\* the four assignments of odomCallback, one field each, then the guard's release
CallbackWrite ==
  LET at == threads.callback.pc
      new == stampedTwist(odom, threads.callback.msg)
  IN /\ at \in {"header", "x", "y", "theta"}
     /\ odom' = [odom EXCEPT !.odom_vel_[at] = new[at]]
     /\ threads' = [threads EXCEPT !.callback.pc =
                      CASE at = "header" -> "x" [] at = "x" -> "y"
                        [] at = "y" -> "theta" [] OTHER -> "unlock"]
     /\ UNCHANGED <<OdomOthers, odom_log>>

CallbackUnlock ==
  /\ threads.callback.pc = "unlock"
  /\ odom' = [odom EXCEPT !.odom_mutex_ = "free"]
  /\ threads' = [threads EXCEPT !.callback.pc = "idle"]
  /\ UNCHANGED <<OdomOthers, odom_log>>

\* the control thread enters getTwistStamped (stamped) or getTwist: neither takes
\* odom_mutex_
GetTwist(stamped) ==
  /\ threads.getter.pc = "idle"
  /\ threads' = [threads EXCEPT !.getter =
                   [pc |-> IF stamped THEN "header" ELSE "x", stamped |-> stamped,
                    copy |-> [header |-> 0, x |-> 0, y |-> 0, theta |-> 0]]]
  /\ odom_log' = [odom_log EXCEPT !.returned = FALSE]
  /\ UNCHANGED <<OdomOthers, odom>>

\* the copy of the returned value, which races with the callback's assignments: the
\* fields are read one at a time, each as odom_vel_ holds it at that moment
GetterRead ==
  LET at == threads.getter.pc
  IN /\ at \in {"header", "x", "y", "theta"}
     /\ threads' = [threads EXCEPT !.getter.copy[at] = odom.odom_vel_[at],
                                   !.getter.pc =
                      CASE at = "header" -> "x" [] at = "x" -> "y"
                        [] at = "y" -> "theta" [] OTHER -> "return"]
     /\ UNCHANGED <<OdomOthers, odom, odom_log>>

GetterReturn ==
  /\ threads.getter.pc = "return"
  /\ odom_log' = [odom_log EXCEPT !.returned = TRUE, !.stamped = threads.getter.stamped,
                                  !.value = threads.getter.copy]
  /\ threads' = [threads EXCEPT !.getter.pc = "idle"]
  /\ UNCHANGED <<OdomOthers, odom>>

NextOdom ==
  \/ \E v \in OdomVelocities : OdomCallback(v)
  \/ CallbackLock
  \/ CallbackWrite
  \/ CallbackUnlock
  \/ \E stamped \in BOOLEAN : GetTwist(stamped)
  \/ GetterRead
  \/ GetterReturn

SpecOdom == InitOdom /\ [][NextOdom]_vars

\* what a getter returns when it sees the stored value v whole
returnedFor(stamped, v) == IF stamped THEN v ELSE [v EXCEPT !.header = 0]

\* C26: whatever the interleaving, the value a getter returns is the header and the
\* thresholded velocity of one single odometry message (or the value the
\* constructor left, when the getter ran before every message): never fields of
\* two messages.
C26_ReturnedValueIsOneMessage ==
  odom_log.returned =>
    \/ odom_log.value = returnedFor(odom_log.stamped, OdomSubscriber(0, 0, 0).odom_vel_)
    \/ \E msg \in odom_log.received :
         odom_log.value = returnedFor(odom_log.stamped, stampedTwist(odom, msg))

\* ---- InflationLayer: the bounds reported by updateBounds ----

\* an updateBounds that remembers nothing when it re-inflates
updateBoundsForgetful(l, b) ==
  IF l.need_reinflation_
  THEN [layer |-> [l EXCEPT !.need_reinflation_ = FALSE], bounds |-> WholeMap]
  ELSE [layer |-> [l EXCEPT !.last_min_x_ = b.min_x, !.last_min_y_ = b.min_y,
                            !.last_max_x_ = b.max_x, !.last_max_y_ = b.max_y],
        bounds |-> Box(plus(Min(l.last_min_x_, b.min_x), 0 - l.inflation_radius_),
                       plus(Min(l.last_min_y_, b.min_y), 0 - l.inflation_radius_),
                       plus(Max(l.last_max_x_, b.max_x), l.inflation_radius_),
                       plus(Max(l.last_max_y_, b.max_y), l.inflation_radius_))]

\* updateBounds(robot_x, robot_y, robot_yaw, min_x, min_y, max_x, max_y): the layer
\* after the call and the bounds it leaves in its arguments
updateBounds(l, b) ==
  IF l.need_reinflation_
  THEN [layer |-> [l EXCEPT !.last_min_x_ = b.min_x, !.last_min_y_ = b.min_y,
                            !.last_max_x_ = b.max_x, !.last_max_y_ = b.max_y,
                            !.need_reinflation_ = FALSE],
        bounds |-> WholeMap]
  ELSE [layer |-> [l EXCEPT !.last_min_x_ = b.min_x, !.last_min_y_ = b.min_y,
                            !.last_max_x_ = b.max_x, !.last_max_y_ = b.max_y],
        bounds |-> Box(plus(Min(l.last_min_x_, b.min_x), 0 - l.inflation_radius_),
                       plus(Min(l.last_min_y_, b.min_y), 0 - l.inflation_radius_),
                       plus(Max(l.last_max_x_, b.max_x), l.inflation_radius_),
                       plus(Max(l.last_max_y_, b.max_y), l.inflation_radius_))]

\* the bounds the layers before this one hand to updateBounds
Boxes ==
  {Box(x1, y1, x2, y2) : x1 \in 0..MaxCell, y1 \in {0, MaxCell}, x2 \in 0..MaxCell,
                         y2 \in {0, MaxCell}}

InitInflation ==
  /\ PlannerIdle
  /\ KinematicsIdle
  /\ limits = NoLimits
  /\ IteratorIdle
  /\ GoalCheckersIdle
  /\ GeneratorIdle
  /\ SetupIdle
  /\ OdomIdle
  /\ BackUpIdle
  /\ \E radius \in {0, 1} : inflation = InflationLayer(radius)
  /\ bounds = Box(0, 0, 0, 0)
  /\ infl_log = NoInflationLog

InflationOthers == <<planner, kin_vars, iter_vars, goal_vars, traj_vars, setup_vars, odom_vars, backup_vars>>

UpdateBounds(b) ==
  /\ infl_log.calls < MaxUpdates
  /\ inflation' = updateBounds(inflation, b).layer
  /\ bounds' = updateBounds(inflation, b).bounds
  /\ infl_log' = [calls |-> infl_log.calls + 1, changed |-> FALSE, passed |-> b,
                  previous |-> infl_log.passed, was_changed |-> infl_log.changed]
  /\ UNCHANGED InflationOthers

OnFootprintChanged ==
  /\ inflation' = [inflation EXCEPT !.need_reinflation_ = TRUE]
  /\ infl_log' = [infl_log EXCEPT !.changed = TRUE]
  /\ UNCHANGED <<InflationOthers, bounds>>

NextInflation ==
  \/ \E b \in Boxes : UpdateBounds(b)
  \/ OnFootprintChanged

SpecInflation == InitInflation /\ [][NextInflation]_vars

\* the union of two boxes grown by r on every side
GrownUnion(a, b, r) ==
  Box(Min(a.min_x, b.min_x) - r, Min(a.min_y, b.min_y) - r,
      Max(a.max_x, b.max_x) + r, Max(a.max_y, b.max_y) + r)

Metre == 400

\* abs(command_x_), unqualified: the double overload, or abs(int) on the converted
\* argument, as the headers of the build decide
absOf(integer_abs, v) == IF integer_abs THEN (abs(v) \div Metre) * Metre ELSE abs(v)

\* stopRobot(): publishes the zero twist
stopRobot(published) == Append(published, Twist2D(0, 0, 0))

\* diff_dist - abs(sim_position_change) <= 0, with diff_dist = a - sqrt(d2)
simulatedFarEnough(a, change, d2) ==
  a - abs(change) <= 0 \/ (a - abs(change)) * (a - abs(change)) <= d2

RECURSIVE simulateAhead(_, _, _, _, _, _, _)
\* the loop of isCollisionFree from cycle_count on, pose2d.x being x
simulateAhead(b, w, a, d2, linear_x, x, cycle_count) ==
  IF cycle_count >= b.max_cycle_count THEN TRUE
  ELSE LET sim_position_change == linear_x * cycle_count
           moved == x + sim_position_change
       IN IF simulatedFarEnough(a, sim_position_change, d2) THEN TRUE
          ELSE IF moved \in w.collisions THEN FALSE
          ELSE simulateAhead(b, w, a, d2, linear_x, moved, cycle_count + 1)

\* isCollisionFree(distance, cmd_vel, pose2d), d2 being the square of distance
isCollisionFree(b, w, d2, linear_x) ==
  simulateAhead(b, w, absOf(b.integer_abs, b.command_x_), d2, linear_x, w.x, 0)

\* an onCycleUpdate that publishes its command before it checks for collisions
onCycleUpdatePublishFirst(b, w) ==
  LET diff_x == b.initial_pose_.x - w.x
      diff_y == b.initial_pose_.y - w.y
      d2 == diff_x * diff_x + diff_y * diff_y
      a == absOf(b.integer_abs, b.command_x_)
      command == Twist2D(IF b.command_x_ < 0 THEN 0 - 1 ELSE 1, 0, 0)
  IN IF ~w.available
     THEN [status |-> "FAILED", published |-> <<>>, free |-> "not called"]
     ELSE IF d2 >= a * a
     THEN [status |-> "SUCCEEDED", published |-> stopRobot(<<>>), free |-> "not called"]
     ELSE IF ~isCollisionFree(b, w, d2, command.x)
     THEN [status |-> "SUCCEEDED", published |-> stopRobot(<<command>>), free |-> "no"]
     ELSE [status |-> "RUNNING", published |-> <<command>>, free |-> "yes"]

\* onCycleUpdate(): the status returned, the twists published, what isCollisionFree
\* returned
onCycleUpdate(b, w) ==
  LET diff_x == b.initial_pose_.x - w.x
      diff_y == b.initial_pose_.y - w.y
      d2 == diff_x * diff_x + diff_y * diff_y
      a == absOf(b.integer_abs, b.command_x_)
      command == Twist2D(IF b.command_x_ < 0 THEN 0 - 1 ELSE 1, 0, 0)
  IN IF ~w.available
     THEN [status |-> "FAILED", published |-> <<>>, free |-> "not called"]
     ELSE IF d2 >= a * a
     THEN [status |-> "SUCCEEDED", published |-> stopRobot(<<>>), free |-> "not called"]
     ELSE IF ~isCollisionFree(b, w, d2, command.x)
     THEN [status |-> "SUCCEEDED", published |-> stopRobot(<<>>), free |-> "no"]
     ELSE [status |-> "RUNNING", published |-> <<command>>, free |-> "yes"]

\* the x the robot and the obstacles may be at, the targets of a goal
Travels ==
  (0 - MaxTravel)..MaxTravel \cup {0 - Metre - 1, 0 - Metre, Metre, Metre + 1}

Targets == (0 - MaxTravel)..MaxTravel \cup {0 - Metre - 1, Metre + 1}

InitBackUp ==
  /\ PlannerIdle
  /\ KinematicsIdle
  /\ limits = NoLimits
  /\ IteratorIdle
  /\ GoalCheckersIdle
  /\ GeneratorIdle
  /\ SetupIdle
  /\ OdomIdle
  /\ InflationIdle
  /\ \E cycles \in {0, MaxCycles}, build \in BOOLEAN :
       backup = [NoBackUp EXCEPT !.max_cycle_count = cycles, !.integer_abs = build]
  /\ \E c \in SUBSET ((0 - MaxTravel - 1)..(MaxTravel + 1)), available \in BOOLEAN :
       /\ Cardinality(c) <= 1
       /\ world = [NoWorld EXCEPT !.collisions = c, !.available = available]
  /\ cycle = NoCycle

BackUpOthers ==
  <<planner, kin_vars, iter_vars, goal_vars, traj_vars, setup_vars, odom_vars, infl_vars>>

\* onRun(command) with command->target.x = target
OnRun(target) ==
  /\ backup.pc = "idle"
  /\ backup' = [backup EXCEPT !.command_x_ = target,
                              !.initial_pose_ = IF world.available
                                                THEN [x |-> world.x, y |-> world.y] ELSE @,
                              !.pc = IF world.available THEN "running" ELSE "done"]
  /\ cycle' = NoCycle
  /\ UNCHANGED <<BackUpOthers, world>>

\* one cycle of the recovery's loop
OnCycleUpdate ==
  /\ backup.pc = "running"
  /\ cycle' = onCycleUpdate(backup, world)
  /\ backup' = [backup EXCEPT !.pc = IF cycle'.status = "RUNNING" THEN "running" ELSE "done"]
  /\ UNCHANGED <<BackUpOthers, world>>

\* between two cycles the robot moves and tf gains or loses its pose: the cycle
\* that ran is over
Move(x, y, available) ==
  /\ backup.pc = "running"
  /\ world' = [world EXCEPT !.x = x, !.y = y, !.available = available]
  /\ cycle' = NoCycle
  /\ UNCHANGED <<BackUpOthers, backup>>

NextBackUp ==
  \/ \E target \in Targets : OnRun(target)
  \/ OnCycleUpdate
  \/ \E x \in Travels, y \in {0, 1}, available \in BOOLEAN : Move(x, y, available)

SpecBackUp == InitBackUp /\ [][NextBackUp]_vars

\* a published twist that moves the robot
MotionCommands(published) ==
  {i \in 1..Len(published) : published[i] # Twist2D(0, 0, 0)}

\* the square of the distance travelled from the initial pose
Travelled2 ==
  (backup.initial_pose_.x - world.x) * (backup.initial_pose_.x - world.x)
    + (backup.initial_pose_.y - world.y) * (backup.initial_pose_.y - world.y)

\* C30: after every cycle, a motion command was published exactly when the cycle
\* returned RUNNING; when the pose was available and the distance travelled was at
\* least |target.x|, or isCollisionFree found a collision ahead, the cycle returned
\* SUCCEEDED, published the stop and no motion command; every motion command has
\* the sign of target.x and no lateral or angular component.
C30_MotionOnlyWhileRunning ==
  cycle.status # "none" =>
    /\ MotionCommands(cycle.published) # {} <=> cycle.status = "RUNNING"
    /\ (world.available /\ Travelled2 >= backup.command_x_ * backup.command_x_)
         \/ cycle.free = "no"
       => /\ cycle.status = "SUCCEEDED"
          /\ MotionCommands(cycle.published) = {}
          /\ cycle.published = <<Twist2D(0, 0, 0)>>
    /\ \A i \in MotionCommands(cycle.published) :
         /\ cycle.published[i].x * backup.command_x_ > 0
         /\ cycle.published[i].y = 0
         /\ cycle.published[i].theta = 0

C30_Witness ==
  /\ cycle.status = "SUCCEEDED"
  /\ cycle.free = "no"
  /\ backup.command_x_ < 0
  /\ Travelled2 > 0

\* ---- the range of the sample space under the two policies ----

\* the range of an axis as the claim states it
ClaimedRange(a) ==
  IF limits.use_dwa
  THEN <<Max(limits[a].min_vel, extent.current[a] - fabs(limits[a].decel_lim)),
         Min(limits[a].max_vel, extent.current[a] + limits[a].acc_lim)>>
  ELSE <<limits[a].min_vel, limits[a].max_vel>>

\* some sample of the iteration with component v on axis a passes isValidSpeed
ValidAt(a, v) ==
  \E i \in 1..Len(velocity_iterator_.xs), j \in 1..Len(velocity_iterator_.ys),
     k \in 1..Len(velocity_iterator_.ths) :
    LET t == Twist2D(velocity_iterator_.xs[i], velocity_iterator_.ys[j],
                     velocity_iterator_.ths[k])
    IN t[a] = v /\ isValidSpeed(kinematics_, t.x, t.y, t.theta)

====
